---- MODULE Spec2Model ----
(***************************************************************************)
(* A model of image2md: the converter registry (image2md/factory.py), the  *)
(* converter contract (image2md/base.py), the backend converters and the   *)
(* fence-stripping they apply to a provider's response.                    *)
(*                                                                         *)
(* Strings whose characters matter (registry names, response texts) are    *)
(* sequences of one-character strings; strings that are only compared      *)
(* (class names, error kinds, option keys) are TLA+ strings.               *)
(***************************************************************************)
EXTENDS Integers, Sequences, FiniteSets, TLC

VARIABLES
    installed,  \* the third-party packages that can be imported
    environ,    \* os.environ: the credential variables that are set
    heap,       \* the dict objects of the process; heap[RegistryRef] is _converters
    held,       \* the references to dicts that available_converters() handed out
    lastReg,    \* the latest successful registration, <<key, class>>, or <<>>
    last,       \* the latest factory call: its arguments and what it returned or raised
    response,   \* a provider's response text, as a sequence of characters
    inner,      \* the text the response was last wrapped around
    layers,     \* what was done to the response, oldest first: "markdown", "bare", "trail"
    passes,     \* the results of normalising the response once, twice, ...
    conv,       \* the converter instance that is called
    fs,         \* the filesystem: the directories and the files with their content
    call,       \* the latest convert or save_markdown call and what came of it
    threads     \* the factory calls running concurrently: each thread's position

envVars == <<installed, environ>>
factoryVars == <<heap, held, lastReg, last>>
fenceVars == <<response, inner, layers, passes>>
convVars == <<conv, fs, call>>
vars == <<envVars, factoryVars, fenceVars, convVars, threads>>

(***************************************************************************)
(* Bounds of the model.                                                    *)
(***************************************************************************)
MaxDicts == 2       \* dict objects alive: _converters and the copies handed out
MaxBase == 2        \* characters of a response text before it is wrapped
MaxWraps == 2       \* fences wrapped around a response text
MaxTrail == 1       \* characters a provider adds after the closing fence
MaxPasses == 2      \* times the normalisation is applied to a response

(***************************************************************************)
(* Python helpers.                                                         *)
(***************************************************************************)
None == "None"

\* str.lower(), character by character
LowerChar(c) ==
    CASE c = "A" -> "a" [] c = "C" -> "c" [] c = "L" -> "l" [] c = "M" -> "m"
      [] c = "O" -> "o" [] c = "R" -> "r" [] c = "S" -> "s" [] c = "T" -> "t"
      [] c = "U" -> "u" [] c = "Z" -> "z" [] c = "E" -> "e" [] c = "I" -> "i"
      [] OTHER -> c

Lower(s) == [i \in 1..Len(s) |-> LowerChar(s[i])]

\* d[k] = v on a dict held as a function
DictSet(d, k, v) == [x \in DOMAIN d \cup {k} |-> IF x = k THEN v ELSE d[x]]

\* del d[k] (d.pop(k, None))
DictDel(d, k) == [x \in DOMAIN d \ {k} |-> d[x]]

\* d.get(k): None when the key is absent
DictGet(d, k) == IF k \in DOMAIN d THEN d[k] ELSE None

EmptyDict == [x \in {} |-> None]

(***************************************************************************)
(* Names used as registry keys and as arguments.                           *)
(***************************************************************************)
N_ocr == <<"o", "c", "r">>
N_OCR == <<"O", "C", "R">>
N_vision == <<"v", "i", "s", "i", "o", "n">>
N_structure == <<"s", "t", "r", "u", "c", "t", "u", "r", "e">>
N_azure == <<"a", "z", "u", "r", "e">>
N_llm == <<"l", "l", "m">>
N_LLM == <<"L", "L", "M">>
N_anthropic == <<"a", "n", "t", "h", "r", "o", "p", "i", "c">>
N_gemini == <<"g", "e", "m", "i", "n", "i">>
N_custom == <<"c", "u", "s", "t", "o", "m">>
N_Custom == <<"C", "u", "s", "t", "o", "m">>
N_test == <<"t", "e", "s", "t">>

\* the names the callers of the model pass to the factory
Names ==
    {N_ocr, N_OCR, N_azure, N_llm, N_LLM, N_anthropic, N_gemini,
     N_custom, N_Custom, N_test}

(***************************************************************************)
(* The classes of the program and of its callers.                          *)
(***************************************************************************)
BuiltinClasses ==
    {"OCRConverter", "VisionConverter", "StructureConverter",
     "AzureDocumentConverter", "LLMConverter", "AnthropicConverter",
     "GeminiConverter"}

\* callers' subclasses of Image2MarkdownConverter that define convert only
\* (tests/test_image2md.py: DummyConverter, CustomConverter)
CustomClasses == {"CustomConverter", "DummyConverter"}

\* issubclass(c, Image2MarkdownConverter)
IsConverterClass(c) == c \in BuiltinClasses \cup CustomClasses

\* what callers hand to register_converter: converter classes, and a class
\* that is no converter (tests/test_image2md.py: NotAConverter)
RegisterArgs == CustomClasses \cup {"NotAConverter"}

(***************************************************************************)
(* Import-time availability flags.                                         *)
(***************************************************************************)
Deps == {"requests", "openai", "anthropic", "genai", "azure"}

EnvVars ==
    {"OPENAI_API_KEY", "ANTHROPIC_API_KEY", "GOOGLE_API_KEY",
     "AZURE_ENDPOINT", "AZURE_API_KEY"}

\* azure_converter.py: the SDK import is guarded inside the module
AzureSdkAvailable == "azure" \in installed
\* llm_converter.py: OPENAI_AVAILABLE
OPENAI_AVAILABLE == "openai" \in installed
\* anthropic_converter.py: ANTHROPIC_AVAILABLE of the converter's module
AnthropicSdkAvailable == "anthropic" \in installed
\* gemini_converter.py: GEMINI_AVAILABLE of the converter's module
GeminiSdkAvailable == "genai" \in installed

\* whether "import image2md.<module>" raises ImportError
ImportsAzureConverter == TRUE                   \* every SDK import is guarded
ImportsLlmConverter == "requests" \in installed \* "import requests" is not
ImportsAnthropicConverter == ImportsLlmConverter \* imports .llm_converter
ImportsGeminiConverter == ImportsLlmConverter    \* imports .llm_converter

\* factory.py: the flags of the factory module
AZURE_AVAILABLE == ImportsAzureConverter
LLM_AVAILABLE == ImportsLlmConverter
ANTHROPIC_AVAILABLE == ImportsAnthropicConverter /\ AnthropicSdkAvailable
GEMINI_AVAILABLE == ImportsGeminiConverter /\ GeminiSdkAvailable

\* factory.py: the class body that builds _converters
InitialConverters ==
    LET base == (N_ocr :> "OCRConverter") @@ (N_vision :> "VisionConverter")
                @@ (N_structure :> "StructureConverter")
        a == IF AZURE_AVAILABLE THEN DictSet(base, N_azure, "AzureDocumentConverter") ELSE base
        b == IF LLM_AVAILABLE THEN DictSet(a, N_llm, "LLMConverter") ELSE a
        c == IF ANTHROPIC_AVAILABLE THEN DictSet(b, N_anthropic, "AnthropicConverter") ELSE b
    IN  IF GEMINI_AVAILABLE THEN DictSet(c, N_gemini, "GeminiConverter") ELSE c

(***************************************************************************)
(* Keyword arguments and constructors.  A keyword-argument bag is a dict   *)
(* from option names to values; every scalar value is a string, a model    *)
(* name is a sequence of characters.                                       *)
(***************************************************************************)
\* Python truthiness of an optional string
Truthy(v) == v # None /\ v # ""

\* a if a is not None else b
PyOrNone(a, b) == IF a # None THEN a ELSE b

\* a or b
PyOr(a, b) == IF Truthy(a) THEN a ELSE b

\* a named parameter with a default
Param(kw, key, default) == IF key \in DOMAIN kw THEN kw[key] ELSE default

\* the **rest of a call whose named parameters are given
Rest(kw, named) == [k \in DOMAIN kw \ named |-> kw[k]]

\* os.environ.get(var)
EnvValue(var) ==
    CASE var = "OPENAI_API_KEY" -> "sk-env-openai"
      [] var = "ANTHROPIC_API_KEY" -> "sk-env-anthropic"
      [] var = "GOOGLE_API_KEY" -> "sk-env-google"
      [] var = "AZURE_ENDPOINT" -> "https://env.azure/path"
      [] var = "AZURE_API_KEY" -> "sk-env-azure"
      [] OTHER -> None

\* an environment in which no variable is ever found
EnvGetNothing(var) == None

EnvGet(var) == IF var \in environ THEN EnvValue(var) ELSE None

\* s.startswith(prefix) on character sequences
StartsWith(s, prefix) ==
    /\ Len(s) >= Len(prefix)
    /\ \A i \in 1..Len(prefix) : s[i] = prefix[i]

M_gpt4o == <<"g", "p", "t", "-", "4", "o">>
M_o4mini == <<"o", "4", "-", "m">>
M_gpt5 == <<"g", "p", "t", "-", "5">>
M_claude37 == <<"c", "l", "a", "u", "d", "e", "-", "3", "-", "7", "-", "s">>
M_gemini25 == <<"g", "e", "m", "i", "n", "i", "-", "2", ".", "5", "-", "f">>
M_claude35 == <<"c", "l", "a", "u", "d", "e", "-", "3", "-", "5", "-", "s">>
M_claude3 == <<"c", "l", "a", "u", "d", "e", "-", "3", "-", "o">>
M_claude2 == <<"c", "l", "a", "u", "d", "e", "-", "2">>
M_gemini2 == <<"g", "e", "m", "i", "n", "i", "-", "2", ".", "0">>
M_gemini15 == <<"g", "e", "m", "i", "n", "i", "-", "1", ".", "5", "-", "p">>
M_gemini1 == <<"g", "e", "m", "i", "n", "i", "-", "1", ".", "0">>
M_geminipro == <<"g", "e", "m", "i", "n", "i", "-", "p", "r", "o">>
P_o4 == <<"o", "4", "-">>
P_gpt5 == <<"g", "p", "t", "-", "5">>

\* the outcome of a constructor call or of a factory call
\* names: the environment variables an error message names
Returned(obj) ==
    [outcome |-> "returned", raisedBy |-> None, instance |-> obj, names |-> {}]

\* an error whose message names environment variables; no instance is bound
RaisedNaming(kind, by, names) ==
    [outcome |-> kind, raisedBy |-> by,
     instance |-> [cls |-> None, attrs |-> EmptyDict], names |-> names]

Raised(kind, by) == RaisedNaming(kind, by, {})

NoInstance == [cls |-> None, attrs |-> EmptyDict]

\* OCRConverter.__init__
OCRConverterInit(kw) ==
    Returned([cls |-> "OCRConverter",
              attrs |-> ("language" :> Param(kw, "language", "eng"))
                        @@ ("ocr_options" :> Rest(kw, {"language"}))])

\* VisionConverter.__init__
VisionConverterInit(kw) ==
    Returned([cls |-> "VisionConverter",
              attrs |-> ("model_name" :> Param(kw, "model_name", "gpt-4-vision"))
                        @@ ("max_tokens" :> Param(kw, "max_tokens", "1000"))
                        @@ ("model_options" :> Rest(kw, {"model_name", "max_tokens"}))])

\* StructureConverter.__init__
StructureConverterInit(kw) ==
    Returned([cls |-> "StructureConverter",
              attrs |-> ("detect_tables" :> Param(kw, "detect_tables", "True"))
                        @@ ("detect_headings" :> Param(kw, "detect_headings", "True"))
                        @@ ("detect_lists" :> Param(kw, "detect_lists", "True"))
                        @@ ("structure_options" :>
                              Rest(kw, {"detect_tables", "detect_headings", "detect_lists"}))])

\* AzureDocumentConverter.__init__
AzureDocumentConverterInit(kw) ==
    LET endpoint == PyOr(Param(kw, "endpoint", None), EnvGet("AZURE_ENDPOINT"))
        api_key == PyOr(Param(kw, "api_key", None), EnvGet("AZURE_API_KEY"))
    IN  IF ~AzureSdkAvailable THEN Raised("ImportError", "__init__")
        ELSE IF ~Truthy(endpoint) \/ ~Truthy(api_key)
        THEN RaisedNaming("ValueError", "__init__", {"AZURE_ENDPOINT", "AZURE_API_KEY"})
        ELSE Returned([cls |-> "AzureDocumentConverter",
                       attrs |-> ("endpoint" :> endpoint) @@ ("api_key" :> api_key)
                                 @@ ("api_version" :> Param(kw, "api_version", "2024-11-30"))
                                 @@ ("model_id" :> Param(kw, "model_id", "prebuilt-layout"))
                                 @@ ("azure_options" :>
                                       Rest(kw, {"endpoint", "api_key", "api_version", "model_id"}))])

\* provider.lower() on the provider names callers use
ProviderLower(p) == IF p = "OpenAI" THEN "openai" ELSE p

\* LLMConverter.__init__
LLMConverterInit(kw) ==
    LET provider == Param(kw, "provider", "openai")
        model == Param(kw, "model", M_gpt4o)
        temperature == Param(kw, "temperature", "0.2")
        clamp == ProviderLower(provider) = "openai" /\ StartsWith(model, P_o4)
        api_key == PyOr(Param(kw, "api_key", None), EnvGet("OPENAI_API_KEY"))
    IN  IF ProviderLower(provider) # "openai" THEN Raised("ValueError", "__init__")
        ELSE IF ~OPENAI_AVAILABLE THEN Raised("ImportError", "__init__")
        ELSE IF ~Truthy(api_key)
        THEN RaisedNaming("ValueError", "__init__", {"OPENAI_API_KEY"})
        ELSE Returned([cls |-> "LLMConverter",
                       attrs |-> ("provider" :> ProviderLower(provider))
                                 @@ ("model" :> model)
                                 @@ ("max_tokens" :> Param(kw, "max_tokens", "4000"))
                                 @@ ("max_completion_tokens" :>
                                       Param(kw, "max_completion_tokens", None))
                                 @@ ("temperature" :> IF clamp THEN "1.0" ELSE temperature)
                                 @@ ("warned" :> IF clamp /\ temperature # "1.0"
                                                 THEN "True" ELSE "False")
                                 @@ ("api_key" :> api_key)
                                 @@ ("llm_options" :>
                                       Rest(kw, {"api_key", "model", "provider", "max_tokens",
                                                 "max_completion_tokens", "temperature"}))])

\* AnthropicConverter.__init__
AnthropicConverterInit(kw) ==
    LET api_key == PyOr(Param(kw, "api_key", None), EnvGet("ANTHROPIC_API_KEY"))
    IN  IF ~Truthy(api_key)
        THEN RaisedNaming("ValueError", "__init__", {"ANTHROPIC_API_KEY"})
        ELSE IF ~AnthropicSdkAvailable THEN Raised("ImportError", "__init__")
        ELSE Returned([cls |-> "AnthropicConverter",
                       attrs |-> ("model" :> Param(kw, "model", M_claude37))
                                 @@ ("max_tokens" :> Param(kw, "max_tokens", "4000"))
                                 @@ ("temperature" :> Param(kw, "temperature", "0.2"))
                                 @@ ("api_key" :> api_key)
                                 @@ ("kwargs" :>
                                       Rest(kw, {"api_key", "model", "max_tokens", "temperature"}))])

\* GeminiConverter.__init__
GeminiConverterInit(kw) ==
    LET api_key == PyOr(Param(kw, "api_key", None), EnvGet("GOOGLE_API_KEY"))
    IN  IF ~Truthy(api_key)
        THEN RaisedNaming("ValueError", "__init__", {"GOOGLE_API_KEY"})
        ELSE IF ~GeminiSdkAvailable THEN Raised("ImportError", "__init__")
        ELSE Returned([cls |-> "GeminiConverter",
                       attrs |-> ("model" :> Param(kw, "model", M_gemini25))
                                 @@ ("max_tokens" :> Param(kw, "max_tokens", "4000"))
                                 @@ ("temperature" :> Param(kw, "temperature", "0.2"))
                                 @@ ("api_key" :> api_key)
                                 @@ ("kwargs" :>
                                       Rest(kw, {"api_key", "model", "max_tokens", "temperature"}))])

\* a caller's subclass without __init__: object() takes no keyword arguments
CustomConverterInit(c, kw) ==
    IF DOMAIN kw # {} THEN Raised("TypeError", "__init__")
    ELSE Returned([cls |-> c, attrs |-> EmptyDict])

\* converter_class(**kwargs); a value that is no class cannot be called
Construct(c, kw) ==
    CASE c = "OCRConverter" -> OCRConverterInit(kw)
      [] c = "VisionConverter" -> VisionConverterInit(kw)
      [] c = "StructureConverter" -> StructureConverterInit(kw)
      [] c = "AzureDocumentConverter" -> AzureDocumentConverterInit(kw)
      [] c = "LLMConverter" -> LLMConverterInit(kw)
      [] c = "AnthropicConverter" -> AnthropicConverterInit(kw)
      [] c = "GeminiConverter" -> GeminiConverterInit(kw)
      [] c \in CustomClasses -> CustomConverterInit(c, kw)
      [] OTHER -> Raised("TypeError", "call")

(***************************************************************************)
(* Fence-stripping: the post-processing of LLMConverter.convert and        *)
(* AnthropicConverter.convert.                                             *)
(***************************************************************************)
NL == "\n"
\* the backtick character (written out: the lexer reads a backtick as a quote)
BT == "BACKTICK"

\* the opening fence tagged markdown, the bare opening fence, the closing fence
FenceMarkdown == <<BT, BT, BT, "m", "a", "r", "k", "d", "o", "w", "n", NL>>
FenceBare == <<BT, BT, BT, NL>>
FenceClose == <<NL, BT, BT, BT>>

\* s.endswith(suffix)
EndsWith(s, suffix) ==
    /\ Len(s) >= Len(suffix)
    /\ \A i \in 1..Len(suffix) : s[Len(s) - Len(suffix) + i] = suffix[i]

\* s[a:-b] for a >= 0, b > 0
Slice(s, a, b) == SubSeq(s, a + 1, Len(s) - b)

\* a normalisation that drops one character less of the opening fence
StripFencesShort(t) ==
    IF StartsWith(t, FenceMarkdown) /\ EndsWith(t, FenceClose) THEN Slice(t, 11, 4)
    ELSE IF StartsWith(t, FenceBare) /\ EndsWith(t, FenceClose) THEN Slice(t, 3, 4)
    ELSE t

\* the if/elif that removes the triple backticks wrapping the markdown
StripFences(t) ==
    IF StartsWith(t, FenceMarkdown) /\ EndsWith(t, FenceClose) THEN Slice(t, 12, 4)
    ELSE IF StartsWith(t, FenceBare) /\ EndsWith(t, FenceClose) THEN Slice(t, 4, 4)
    ELSE t

\* the characters responses are made of
Alphabet == {BT, NL, "x"}

\* every text of at most n characters
Texts(n) == UNION {[1..k -> Alphabet] : k \in 0..n}

\* how often x occurs in the sequence q
Count(q, x) == Cardinality({i \in 1..Len(q) : q[i] = x})

\* the provider answers with a short text
InitFence ==
    /\ response \in Texts(MaxBase)
    /\ inner = response
    /\ layers = <<>>
    /\ passes = <<>>

\* the provider wraps its answer in a markdown-tagged fence or in a bare fence
Wrap(kind) ==
    /\ passes = <<>>
    /\ Count(layers, "markdown") + Count(layers, "bare") < MaxWraps
    /\ inner' = response
    /\ response' = (IF kind = "markdown" THEN FenceMarkdown ELSE FenceBare)
                   \o response \o FenceClose
    /\ layers' = Append(layers, kind)
    /\ UNCHANGED <<envVars, threads, factoryVars, convVars, passes>>

WrapMarkdown == Wrap("markdown")
WrapBare == Wrap("bare")

\* the provider adds a character after the closing fence
Trail(c) ==
    /\ passes = <<>>
    /\ layers # <<>>
    /\ Count(layers, "trail") < MaxTrail
    /\ response' = Append(response, c)
    /\ layers' = Append(layers, "trail")
    /\ UNCHANGED <<envVars, threads, factoryVars, convVars, inner, passes>>

\* the converter normalises the response, or its own earlier result
Normalise ==
    /\ Len(passes) < MaxPasses
    /\ passes' = Append(passes, StripFences(IF passes = <<>> THEN response
                                            ELSE passes[Len(passes)]))
    /\ UNCHANGED <<envVars, threads, factoryVars, convVars, response, inner, layers>>

Trails == \E c \in Alphabet : Trail(c)

NextFence == WrapMarkdown \/ WrapBare \/ Trails \/ Normalise

(***************************************************************************)
(* Paths and the filesystem.  A path is a record of its directory, stem    *)
(* and suffix; a file holds text, a JSON document or image bytes.          *)
(***************************************************************************)
Path(dir, stem, ext) == [dir |-> dir, stem |-> stem, ext |-> ext]

\* output_path=None, json_output_path=None
NoPath == Path("", "", "")

\* path.with_suffix(ext)
WithSuffix(p, ext) == [p EXCEPT !.ext = ext]

\* path.name, as the pieces of the file name
PathName(p) == <<p.stem, p.ext>>

TextFile(t) == [kind |-> "text", text |-> t, json |-> EmptyDict]
JsonFile(j) == [kind |-> "json", text |-> <<>>, json |-> j]
ImageFile == [kind |-> "image", text |-> <<>>, json |-> EmptyDict]

\* a writer that first creates the missing parent directories
OpenForWritingParents(f, p, content) ==
    [ok |-> TRUE,
     fs |-> [dirs |-> f.dirs \cup {p.dir}, files |-> DictSet(f.files, p, content)]]

\* with open(p, "w") as h: h.write(content) -- open() fails when the parent
\* directory is missing and creates nothing
OpenForWriting(f, p, content) ==
    IF p.dir \in f.dirs
    THEN [ok |-> TRUE, fs |-> [f EXCEPT !.files = DictSet(@, p, content)]]
    ELSE [ok |-> FALSE, fs |-> f]

\* a check that takes every image for present
ImageAssumed(f, p) == TRUE

\* image_path.exists()
ImageExists(f, p) == p \in DOMAIN f.files

\* the paths callers use: an image that exists and one that does not, an
\* output in an existing directory and one in a directory yet to be made
P_image == Path("in", "a", ".png")
P_missing == Path("in", "b", ".png")
P_out == Path("in", "o", ".md")
P_deep == Path("new", "o", ".md")
P_sidecar == Path("in", "s", ".json")

OldText == <<"o", "l", "d">>

\* a temporary directory holding the image
FreshFs == [dirs |-> {"in"}, files |-> (P_image :> ImageFile)]

\* the same after an earlier run left its outputs there
StaleFs ==
    [dirs |-> {"in"},
     files |-> (P_image :> ImageFile) @@ (P_out :> TextFile(OldText))
               @@ (WithSuffix(P_image, ".md") :> TextFile(OldText))]

EmptyFs == [dirs |-> {}, files |-> EmptyDict]

(***************************************************************************)
(* The provider: what it answers to a request.                             *)
(***************************************************************************)
Body == <<"#", " ", "T">>

Reply(ok, text) == [ok |-> ok, text |-> text]

\* no request was made
NoReply == Reply(FALSE, <<"-">>)

\* the provider answers with markdown, plain or wrapped in a fence, or fails
ProviderReplies ==
    {Reply(TRUE, Body),
     Reply(TRUE, FenceMarkdown \o Body \o FenceClose),
     Reply(TRUE, FenceBare \o Body \o FenceClose),
     Reply(FALSE, <<>>)}

(***************************************************************************)
(* What a convert call comes to: the text returned or the error raised,    *)
(* the steps taken, the requests sent to the provider and the filesystem   *)
(* afterwards.                                                             *)
(***************************************************************************)
Done(outcome, by, prefix, text, steps, sent, f) ==
    [outcome |-> outcome, raisedBy |-> by, prefix |-> prefix, text |-> text,
     steps |-> steps, sent |-> sent, fs |-> f]

\* {**a, **b}
Merge(a, b) == [k \in DOMAIN a \cup DOMAIN b |-> IF k \in DOMAIN b THEN b[k] ELSE a[k]]

\* a bool option
IsTrue(v) == v = "True"

\* {k: v for k, v in params.items() if k not in ["api_key"]}
SafeParams(params) == Rest(params, {"api_key"})

Now == "now"
SystemInfo == "system_info"

(***************************************************************************)
(* The stub converters.  Their text is a sequence of pieces.               *)
(***************************************************************************)
\* an OCR stub that reports English whatever language it was built with
OCRConvertEng(self, image_path, kw, f) ==
    Done("returned", None, None,
         <<"# Content from ">> \o PathName(image_path) \o <<NL, NL>>
         \o <<"This text was extracted using OCR (", "eng", ") from the image.", NL, NL>>,
         <<>>, <<>>, f)

\* OCRConverter.convert
OCRConvert(self, image_path, kw, f) ==
    Done("returned", None, None,
         <<"# Content from ">> \o PathName(image_path) \o <<NL, NL>>
         \o <<"This text was extracted using OCR (", self.attrs["language"],
              ") from the image.", NL, NL,
              "- First detected text item", NL,
              "- Second detected text item", NL,
              "- Third detected text item", NL, NL,
              "> Some quoted text detected in the image", NL, NL>>,
         <<>>, <<>>, f)

\* VisionConverter.convert
VisionConvert(self, image_path, kw, f) ==
    LET given == Param(kw, "prompt", None)
        prompt == IF given = None
                  THEN "Describe the content of this image in detail and format as markdown"
                  ELSE given
        kwargs == Rest(kw, {"prompt"})
    IN  Done("returned", None, None,
             <<"# ">> \o PathName(image_path)
             \o <<" Analysis", "The color scheme is primarily ",
                  Param(kwargs, "assumed_colors", "blue and white"),
                  "The image depicts what seems to be a ",
                  Param(kwargs, "assumed_content", "technical diagram"),
                  "This analysis was generated using the ", self.attrs["model_name"],
                  " model with a max token limit of ", self.attrs["max_tokens"],
                  "The prompt used was: ", prompt>>,
             <<>>, <<>>, f)

\* an analysis that finds the table whatever detect_tables says, and ties
\* the lists to it
MockAnalyzeImageAnyTable(self, image_path) ==
    [title |-> <<"Document from ", image_path.stem>>,
     headings |-> IF IsTrue(self.attrs["detect_headings"])
                  THEN <<[level |-> 1, text |-> "Main Heading"]>> ELSE <<>>,
     paragraphs |-> <<"This is the first paragraph of text extracted from the image.">>,
     lists |-> IF IsTrue(self.attrs["detect_tables"])
               THEN <<[type |-> "unordered", items |-> <<"Item 1">>]>> ELSE <<>>,
     tables |-> <<[headers |-> <<"Column 1">>, rows |-> << <<"Data 1A">> >>]>>]

\* StructureConverter._mock_analyze_image
MockAnalyzeImage(self, image_path) ==
    [title |-> <<"Document from ", image_path.stem>>,
     headings |-> IF IsTrue(self.attrs["detect_headings"])
                  THEN <<[level |-> 1, text |-> "Main Heading"],
                         [level |-> 2, text |-> "Section 1"],
                         [level |-> 2, text |-> "Section 2"]>>
                  ELSE <<>>,
     paragraphs |-> <<"This is the first paragraph of text extracted from the image.",
                      "This is another paragraph with more detailed information.">>,
     lists |-> IF IsTrue(self.attrs["detect_lists"])
               THEN <<[type |-> "unordered", items |-> <<"Item 1", "Item 2", "Item 3">>],
                      [type |-> "ordered",
                       items |-> <<"First step", "Second step", "Third step">>]>>
               ELSE <<>>,
     tables |-> IF IsTrue(self.attrs["detect_tables"])
                THEN <<[headers |-> <<"Column 1", "Column 2", "Column 3">>,
                        rows |-> << <<"Data 1A", "Data 1B", "Data 1C">>,
                                    <<"Data 2A", "Data 2B", "Data 2C">> >>]>>
                ELSE <<>>]

\* the pieces of a text one after the other: "".join(parts)
RECURSIVE Concat(_)
Concat(parts) == IF parts = <<>> THEN <<>> ELSE Head(parts) \o Concat(Tail(parts))

\* f"{'#' * level} {text}\n"
HeadingLine(heading) == [i \in 1..heading.level |-> "#"] \o <<" ", heading.text, NL>>

\* the lines of the headings, each followed by the next paragraph and one
\* newline while a paragraph is left (paragraphs.pop(0)), then the
\* paragraphs that remain, each followed by an empty line
RECURSIVE HeadingsAndParagraphs(_, _)
HeadingsAndParagraphs(headings, paragraphs) ==
    IF headings = <<>>
    THEN Concat([i \in 1..Len(paragraphs) |-> <<paragraphs[i], NL, NL>>])
    ELSE HeadingLine(Head(headings))
         \o (IF paragraphs = <<>> THEN <<>> ELSE <<Head(paragraphs), NL>>)
         \o HeadingsAndParagraphs(Tail(headings),
                                  IF paragraphs = <<>> THEN <<>> ELSE Tail(paragraphs))

\* one list: an empty line, the items with a dash or with their number, an
\* empty line
ListLines(lst) ==
    <<NL>>
    \o Concat([i \in 1..Len(lst.items) |->
                  IF lst.type = "unordered"
                  THEN <<"- ", lst.items[i], NL>>
                  ELSE <<ToString(i), ". ", lst.items[i], NL>>])
    \o <<NL>>

\* f"| {' | '.join(cells)} |\n"
TableRow(cells) ==
    <<"| ">>
    \o Concat([i \in 1..Len(cells) |->
                  IF i = 1 THEN <<cells[i]>> ELSE <<" | ", cells[i]>>])
    \o <<" |", NL>>

\* one table: the header, the separator, the rows, an empty line
TableLines(table) ==
    TableRow(table.headers)
    \o TableRow([i \in 1..Len(table.headers) |-> "---"])
    \o Concat([i \in 1..Len(table.rows) |-> TableRow(table.rows[i])])
    \o <<NL>>

\* StructureConverter._generate_markdown
GenerateMarkdown(image_path, analysis) ==
    <<"# ">> \o analysis.title \o <<NL>>
    \o <<"*Source: ">> \o PathName(image_path) \o <<"*", NL>>
    \o HeadingsAndParagraphs(analysis.headings, analysis.paragraphs)
    \o Concat([i \in 1..Len(analysis.lists) |-> ListLines(analysis.lists[i])])
    \o Concat([i \in 1..Len(analysis.tables) |-> TableLines(analysis.tables[i])])

\* a structure stub that lets the options of the call override its flags
StructureConvertPerCall(self, image_path, kw, f) ==
    LET flags == {"detect_tables", "detect_headings", "detect_lists"}
        attrs == [k \in DOMAIN self.attrs |->
                     IF k \in flags THEN Param(kw, k, self.attrs[k]) ELSE self.attrs[k]]
    IN  Done("returned", None, None,
             GenerateMarkdown(image_path,
                              MockAnalyzeImage([self EXCEPT !.attrs = attrs], image_path)),
             <<>>, <<>>, f)

\* StructureConverter.convert
StructureConvert(self, image_path, kw, f) ==
    Done("returned", None, None,
         GenerateMarkdown(image_path, MockAnalyzeImage(self, image_path)),
         <<>>, <<>>, f)

(***************************************************************************)
(* LLMConverter.                                                           *)
(***************************************************************************)
LLMDefaultPrompt == "Convert this image to well-formatted markdown. (llm)"

\* the model is of the family that takes max_completion_tokens
NewerFamily(model) == StartsWith(model, P_o4) \/ StartsWith(model, P_gpt5)

\* LLMConverter.convert: api_params
LLMApiParams(self, prompt, image_path, kwargs) ==
    LET base == ("model" :> self.attrs["model"])
                @@ ("messages" :> [prompt |-> prompt, image |-> image_path])
    IN  IF NewerFamily(self.attrs["model"])
        THEN DictSet(base, "max_completion_tokens",
                     Param(kwargs, "max_completion_tokens",
                           PyOr(self.attrs["max_completion_tokens"],
                                self.attrs["max_tokens"])))
        ELSE DictSet(DictSet(base, "max_tokens",
                             Param(kwargs, "max_tokens", self.attrs["max_tokens"])),
                     "temperature",
                     Param(kwargs, "temperature", self.attrs["temperature"]))

\* LLMConverter._create_provenance(...).as_dict()
LLMCreateProvenance(self, params, prompt) ==
    ("timestamp" :> Now) @@ ("model" :> self.attrs["model"])
    @@ ("model_version" :> DictGet(self.attrs["llm_options"], "model_version"))
    @@ ("provider" :> "Openai") @@ ("system_info" :> SystemInfo)
    @@ ("conversion_params" :> DictSet(SafeParams(params), "prompt", prompt))

\* LLMConverter.convert
LLMConvert(self, image_path, kw, reply, f) ==
    LET save_json == IsTrue(Param(kw, "save_json", "False"))
        json_output_path == Param(kw, "json_output_path", NoPath)
        kwargs == Rest(kw, {"save_json", "json_output_path", "custom_prompt"})
        prompt == PyOr(Param(kw, "custom_prompt", None), LLMDefaultPrompt)
        api_params == LLMApiParams(self, prompt, image_path, kwargs)
        markdown_content == StripFences(reply.text)
        json_data == ("provider" :> self.attrs["provider"])
                     @@ ("model" :> self.attrs["model"])
                     @@ ("provenance" :> LLMCreateProvenance(self, api_params, prompt))
                     @@ ("response" :> reply.text)
                     @@ ("image_path" :> image_path)
                     @@ ("markdown_content" :> markdown_content)
        written == OpenForWriting(f, json_output_path, JsonFile(json_data))
    IN  IF ~ImageExists(f, image_path)
        THEN Done("FileNotFoundError", "convert", None, <<>>, <<>>, <<>>, f)
        ELSE IF self.attrs["provider"] # "openai"
        THEN Done("ValueError", "convert", None, <<>>, <<>>, <<>>, f)
        ELSE IF ~reply.ok
        THEN Done("Exception", "convert", "Error code: ", <<>>,
                  <<"request">>, <<api_params>>, f)
        ELSE IF ~(save_json /\ json_output_path # NoPath)
        THEN Done("returned", None, None, markdown_content,
                  <<"request", "normalise">>, <<api_params>>, f)
        ELSE IF ~written.ok
        THEN Done("Exception", "convert", "Error code: ", <<>>,
                  <<"request", "normalise">>, <<api_params>>, f)
        ELSE Done("returned", None, None, markdown_content,
                  <<"request", "normalise", "sidecar">>, <<api_params>>, written.fs)

(***************************************************************************)
(* AnthropicConverter and GeminiConverter.                                 *)
(***************************************************************************)
AnthropicDefaultPrompt == "Convert this image to well-formatted markdown. (anthropic)"
GeminiDefaultPrompt == "Convert this image to well-formatted markdown. (gemini)"

P_claude37 == <<"c", "l", "a", "u", "d", "e", "-", "3", "-", "7">>
P_claude35 == <<"c", "l", "a", "u", "d", "e", "-", "3", "-", "5">>
P_claude3 == <<"c", "l", "a", "u", "d", "e", "-", "3">>
P_gemini25 == <<"g", "e", "m", "i", "n", "i", "-", "2", ".", "5">>
P_gemini2 == <<"g", "e", "m", "i", "n", "i", "-", "2">>
P_gemini15 == <<"g", "e", "m", "i", "n", "i", "-", "1", ".", "5">>
P_gemini1 == <<"g", "e", "m", "i", "n", "i", "-", "1">>

\* a version test that tries the general prefix first
AnthropicModelVersionGeneral(model) ==
    IF StartsWith(model, P_claude3) THEN "3"
    ELSE IF StartsWith(model, P_claude37) THEN "3.7"
    ELSE IF StartsWith(model, P_claude35) THEN "3.5"
    ELSE None

\* AnthropicConverter._create_provenance: model_version
AnthropicModelVersion(model) ==
    IF StartsWith(model, P_claude37) THEN "3.7"
    ELSE IF StartsWith(model, P_claude35) THEN "3.5"
    ELSE IF StartsWith(model, P_claude3) THEN "3"
    ELSE None

\* GeminiConverter._create_provenance: model_version
GeminiModelVersion(model) ==
    IF StartsWith(model, P_gemini25) THEN "2.5"
    ELSE IF StartsWith(model, P_gemini2) THEN "2.0"
    ELSE IF StartsWith(model, P_gemini15) THEN "1.5"
    ELSE IF StartsWith(model, P_gemini1) THEN "1.0"
    ELSE None

\* api_params that take nothing from the call
ApiParamsBound(self, kwargs) ==
    ("model" :> self.attrs["model"]) @@ ("max_tokens" :> self.attrs["max_tokens"])
    @@ ("temperature" :> self.attrs["temperature"])

\* api_params of AnthropicConverter.convert and of GeminiConverter.convert:
\* model, max_tokens and temperature from the call or else from the
\* instance, then every other keyword argument of the call
ApiParams(self, kwargs) ==
    Merge(("model" :> Param(kwargs, "model", self.attrs["model"]))
          @@ ("max_tokens" :> Param(kwargs, "max_tokens", self.attrs["max_tokens"]))
          @@ ("temperature" :> Param(kwargs, "temperature", self.attrs["temperature"])),
          Rest(kwargs, {"model", "max_tokens", "temperature"}))

\* AnthropicConverter._create_provenance(...).as_dict(), request_id set
AnthropicCreateProvenance(self, params, prompt) ==
    ("timestamp" :> Now) @@ ("model" :> self.attrs["model"])
    @@ ("model_version" :> AnthropicModelVersion(self.attrs["model"]))
    @@ ("provider" :> "Anthropic") @@ ("model_family" :> "Claude")
    @@ ("request_id" :> "msg_id") @@ ("system_info" :> SystemInfo)
    @@ ("conversion_params" :> DictSet(SafeParams(params), "prompt", prompt))

\* GeminiConverter._create_provenance(...).as_dict()
GeminiCreateProvenance(self, params, prompt) ==
    ("timestamp" :> Now) @@ ("model" :> self.attrs["model"])
    @@ ("model_version" :> GeminiModelVersion(self.attrs["model"]))
    @@ ("provider" :> "Google") @@ ("model_family" :> "Gemini")
    @@ ("request_id" :> None) @@ ("system_info" :> SystemInfo)
    @@ ("conversion_params" :> DictSet(SafeParams(params), "prompt", prompt))

\* AnthropicConverter.convert
AnthropicConvert(self, image_path, kw, reply, f) ==
    LET save_json == IsTrue(Param(kw, "save_json", "False"))
        json_output_path == Param(kw, "json_output_path", NoPath)
        kwargs == Rest(kw, {"save_json", "json_output_path", "custom_prompt"})
        prompt == PyOr(Param(kw, "custom_prompt", None), AnthropicDefaultPrompt)
        api_params == ApiParams(self, kwargs)
        request == ("model" :> api_params["model"])
                   @@ ("max_tokens" :> api_params["max_tokens"])
                   @@ ("temperature" :> api_params["temperature"])
                   @@ ("messages" :> [prompt |-> prompt, image |-> image_path])
        markdown_content == StripFences(reply.text)
        json_data == ("provider" :> "Anthropic")
                     @@ ("model" :> self.attrs["model"])
                     @@ ("provenance" :> AnthropicCreateProvenance(self, api_params, prompt))
                     @@ ("response" :> reply.text)
                     @@ ("image_path" :> image_path)
                     @@ ("markdown_content" :> markdown_content)
        written == OpenForWriting(f, json_output_path, JsonFile(json_data))
    IN  IF ~ImageExists(f, image_path)
        THEN Done("FileNotFoundError", "convert", None, <<>>, <<>>, <<>>, f)
        ELSE IF ~reply.ok
        THEN Done("Exception", "convert", "Anthropic API error: ", <<>>,
                  <<"request">>, <<request>>, f)
        ELSE IF ~(save_json /\ json_output_path # NoPath)
        THEN Done("returned", None, None, markdown_content,
                  <<"request", "normalise">>, <<request>>, f)
        ELSE IF ~written.ok
        THEN Done("Exception", "convert", "Anthropic API error: ", <<>>,
                  <<"request", "normalise">>, <<request>>, f)
        ELSE Done("returned", None, None, markdown_content,
                  <<"request", "normalise", "sidecar">>, <<request>>, written.fs)

\* GeminiConverter.convert: the response text is returned as it came
\* (the request goes to self.client, the GenerativeModel of self.model)
GeminiConvert(self, image_path, kw, reply, f) ==
    LET save_json == IsTrue(Param(kw, "save_json", "False"))
        json_output_path == Param(kw, "json_output_path", NoPath)
        kwargs == Rest(kw, {"save_json", "json_output_path", "custom_prompt"})
        prompt == PyOr(Param(kw, "custom_prompt", None), GeminiDefaultPrompt)
        api_params == ApiParams(self, kwargs)
        request == ("model" :> self.attrs["model"])
                   @@ ("contents" :> [prompt |-> prompt, image |-> image_path])
                   @@ ("max_output_tokens" :> api_params["max_tokens"])
                   @@ ("temperature" :> api_params["temperature"])
        markdown_content == reply.text
        json_data == ("provider" :> "Google")
                     @@ ("model" :> self.attrs["model"])
                     @@ ("provenance" :> GeminiCreateProvenance(self, api_params, prompt))
                     @@ ("response" :> markdown_content)
                     @@ ("image_path" :> image_path)
                     @@ ("markdown_content" :> markdown_content)
        written == OpenForWriting(f, json_output_path, JsonFile(json_data))
    IN  IF ~ImageExists(f, image_path)
        THEN Done("FileNotFoundError", "convert", None, <<>>, <<>>, <<>>, f)
        ELSE IF ~reply.ok
        THEN Done("Exception", "convert", "Google Gemini API error: ", <<>>,
                  <<"request">>, <<request>>, f)
        ELSE IF ~(save_json /\ json_output_path # NoPath)
        THEN Done("returned", None, None, markdown_content,
                  <<"request">>, <<request>>, f)
        ELSE IF ~written.ok
        THEN Done("Exception", "convert", "Google Gemini API error: ", <<>>,
                  <<"request">>, <<request>>, f)
        ELSE Done("returned", None, None, markdown_content,
                  <<"request", "sidecar">>, <<request>>, written.fs)

(***************************************************************************)
(* AzureDocumentConverter.                                                 *)
(***************************************************************************)
DefaultFeatures == "keyValuePairs,languages"

\* f"{parsed_url.scheme}://{parsed_url.netloc}/***" on the endpoints in use
MaskEndpoint(endpoint) ==
    CASE endpoint = "https://arg.azure/path" -> "https://arg.azure/***"
      [] endpoint = "https://env.azure/path" -> "https://env.azure/***"
      [] OTHER -> "https:///***"

\* AzureDocumentConverter._create_provenance(...).as_dict()
AzureCreateProvenance(self, params) ==
    LET safe_params == SafeParams(params)
        masked == IF "endpoint" \in DOMAIN safe_params /\ Truthy(safe_params["endpoint"])
                  THEN DictSet(safe_params, "endpoint", MaskEndpoint(safe_params["endpoint"]))
                  ELSE safe_params
    IN  ("timestamp" :> Now) @@ ("model_id" :> self.attrs["model_id"])
        @@ ("api_version" :> self.attrs["api_version"])
        @@ ("system_info" :> SystemInfo) @@ ("conversion_params" :> masked)

\* a removal list that leaves the credential in
ParamsToRemoveKeys == {"model_id", "api_version", "endpoint", "json_output_path"}

\* the keyword arguments AzureDocumentConverter.convert drops before the call
ParamsToRemove ==
    {"model_id", "api_version", "endpoint", "api_key", "credential", "json_output_path"}

\* AzureDocumentConverter.convert
AzureConvert(self, image_path, kw, reply, f) ==
    LET save_json == IsTrue(Param(kw, "save_json", "False"))
        given == Param(kw, "json_output_path", NoPath)
        kwargs0 == Rest(kw, {"save_json", "json_output_path"})
        features == Param(kwargs0, "features", DefaultFeatures)
        kwargs == DictDel(kwargs0, "features")
        provenance_params ==
            Merge(("model_id" :> self.attrs["model_id"])
                  @@ ("api_version" :> self.attrs["api_version"])
                  @@ ("endpoint" :> self.attrs["endpoint"])
                  @@ ("features" :> features),
                  kwargs)
        provenance == AzureCreateProvenance(self, provenance_params)
        request == ("model_id" :> self.attrs["model_id"])
                   @@ ("document" :> image_path)
                   @@ ("features" :> features)
                   @@ ("output_content_format" :> "markdown")
                   @@ ("kwargs" :> Rest(kwargs, ParamsToRemove))
        markdown_content == reply.text
        json_output_path == IF given = NoPath THEN WithSuffix(image_path, ".json") ELSE given
        enhanced_json == ("markdown" :> markdown_content)
                         @@ ("provenance" :> provenance)
                         @@ ("timestamp" :> Now)
                         @@ ("image_path" :> image_path)
                         @@ ("conversion_type" :> "azure")
                         @@ ("azure_result" :> reply.text)
        written == OpenForWriting(f, json_output_path, JsonFile(enhanced_json))
    IN  IF ~ImageExists(f, image_path)
        THEN Done("FileNotFoundError", "convert", None, <<>>, <<>>, <<>>, f)
        ELSE IF ~reply.ok
        THEN Done("Exception", "provider", None, <<>>, <<"request">>, <<request>>, f)
        ELSE IF ~save_json
        THEN Done("returned", None, None, markdown_content, <<"request">>, <<request>>, f)
        ELSE IF ~written.ok
        THEN Done("FileNotFoundError", "open", None, <<>>, <<"request">>, <<request>>, f)
        ELSE Done("returned", None, None, markdown_content,
                  <<"request", "sidecar">>, <<request>>, written.fs)

(***************************************************************************)
(* The converter contract: convert, and save_markdown on top of it.        *)
(***************************************************************************)
StubClasses == {"OCRConverter", "VisionConverter", "StructureConverter"}
LLMBackedClasses == {"LLMConverter", "AnthropicConverter", "GeminiConverter"}
ProviderBackedClasses == LLMBackedClasses \cup {"AzureDocumentConverter"}

\* a convert whose Gemini branch swallows the provider's failure and returns
\* an empty text
convert_swallowing(self, image_path, kw, reply, f) ==
    CASE self.cls = "OCRConverter" -> OCRConvert(self, image_path, kw, f)
      [] self.cls = "VisionConverter" -> VisionConvert(self, image_path, kw, f)
      [] self.cls = "StructureConverter" -> StructureConvert(self, image_path, kw, f)
      [] self.cls = "LLMConverter" -> LLMConvert(self, image_path, kw, reply, f)
      [] self.cls = "AnthropicConverter" -> AnthropicConvert(self, image_path, kw, reply, f)
      [] self.cls = "GeminiConverter" ->
            GeminiConvert(self, image_path, kw, IF reply.ok THEN reply ELSE Reply(TRUE, <<>>), f)
      [] self.cls = "AzureDocumentConverter" -> AzureConvert(self, image_path, kw, reply, f)

\* self.convert(image_path, **kw), by the class of self
convert(self, image_path, kw, reply, f) ==
    CASE self.cls = "OCRConverter" -> OCRConvert(self, image_path, kw, f)
      [] self.cls = "VisionConverter" -> VisionConvert(self, image_path, kw, f)
      [] self.cls = "StructureConverter" -> StructureConvert(self, image_path, kw, f)
      [] self.cls = "LLMConverter" -> LLMConvert(self, image_path, kw, reply, f)
      [] self.cls = "AnthropicConverter" -> AnthropicConvert(self, image_path, kw, reply, f)
      [] self.cls = "GeminiConverter" -> GeminiConvert(self, image_path, kw, reply, f)
      [] self.cls = "AzureDocumentConverter" -> AzureConvert(self, image_path, kw, reply, f)

\* what save_markdown comes to: what convert came to, and the path returned
Saved(r, outcome, by, steps, f, path) ==
    [r EXCEPT !.outcome = outcome, !.raisedBy = by, !.steps = steps, !.fs = f]
    @@ [path |-> path, converted |-> r.outcome]

\* a save_markdown that catches what convert raises and writes an empty file
save_markdown_catching(self, image_path, output, kw, reply, f) ==
    LET r == convert(self, image_path, kw, reply, f)
        output_path == IF output = NoPath THEN WithSuffix(image_path, ".md") ELSE output
        written == OpenForWriting(r.fs, output_path,
                                  TextFile(IF r.outcome = "returned" THEN r.text ELSE <<>>))
    IN  IF ~written.ok
        THEN Saved(r, "FileNotFoundError", "open", r.steps, r.fs, NoPath)
        ELSE Saved(r, "returned", None, Append(r.steps, "markdown"), written.fs,
                   output_path)

\* Image2MarkdownConverter.save_markdown, and the overrides of LLMConverter,
\* AnthropicConverter and GeminiConverter, which differ from it only in
\* computing the default output path before they call convert
save_markdown(self, image_path, output, kw, reply, f) ==
    LET r == convert(self, image_path, kw, reply, f)
        output_path == IF output = NoPath THEN WithSuffix(image_path, ".md") ELSE output
        written == OpenForWriting(r.fs, output_path, TextFile(r.text))
    IN  IF r.outcome # "returned"
        THEN Saved(r, r.outcome, r.raisedBy, r.steps, r.fs, NoPath)
        ELSE IF ~written.ok
        THEN Saved(r, "FileNotFoundError", "open", r.steps, r.fs, NoPath)
        ELSE Saved(r, "returned", None, Append(r.steps, "markdown"), written.fs,
                   output_path)

\* the record of a call on a converter
Called(op, image_path, output, kw, reply, r) ==
    [op |-> op, image |-> image_path, output |-> output, opts |-> kw,
     reply |-> IF r.sent = <<>> THEN NoReply ELSE reply,
     outcome |-> r.outcome, raisedBy |-> r.raisedBy, prefix |-> r.prefix,
     text |-> r.text, steps |-> r.steps, sent |-> r.sent,
     path |-> r.path, converted |-> r.converted]

NoCall ==
    [op |-> "none", image |-> NoPath, output |-> NoPath, opts |-> EmptyDict,
     reply |-> NoReply, outcome |-> None, raisedBy |-> None, prefix |-> None,
     text |-> <<>>, steps |-> <<>>, sent |-> <<>>, path |-> NoPath, converted |-> None]

\* no converter is under call
InitNoConvert ==
    /\ conv = NoInstance
    /\ fs = EmptyFs
    /\ call = NoCall

\* the credential the converter was built with
Credential(self) == DictGet(self.attrs, "api_key")

JsonOptions == ("save_json" :> "True") @@ ("json_output_path" :> P_sidecar)

\* the options callers pass to convert and to save_markdown: none, a
\* sidecar with or without its path, and the credential passed once more
\* under the constructor's name for it or under the name the SDK has for it
\* to an LLM-backed converter also a token limit and a temperature, a
\* prompt or an empty prompt, another model and an option the SDK call does
\* not take; to the Azure converter also the names of its constructor's
\* options with other values and options of the analysis
CallOptions(self) ==
    {EmptyDict,
     ("save_json" :> "True"),
     JsonOptions,
     ("max_tokens" :> "100") @@ JsonOptions}
    \cup (IF Credential(self) = None THEN {}
          ELSE {("api_key" :> Credential(self)) @@ JsonOptions,
                ("credential" :> Credential(self)) @@ JsonOptions})
    \cup (IF self.cls \in LLMBackedClasses
          THEN {("max_tokens" :> "100") @@ ("temperature" :> "0.9"),
                ("custom_prompt" :> "Brief."),
                ("custom_prompt" :> ""),
                ("model" :> M_claude2) @@ ("top_p" :> "0.5") @@ JsonOptions}
          ELSE {})
    \cup (IF self.cls = "LLMConverter"
          THEN {("max_completion_tokens" :> "50") @@ ("max_tokens" :> "100")}
          ELSE {})
    \cup (IF self.cls = "AzureDocumentConverter"
          THEN {("model_id" :> "prebuilt-read") @@ ("api_version" :> "2023-07-31")
                @@ ("endpoint" :> "https://other.azure/path") @@ ("pages" :> "1")
                @@ JsonOptions,
                ("features" :> "ocrHighResolution") @@ ("locale" :> "en")}
          ELSE {})

Images == {P_image, P_missing}
Outputs == {NoPath, P_out, P_deep}

\* converter.convert(image_path, **kw); the provider answers reply
Convert(image_path, kw, reply) ==
    LET r == convert(conv, image_path, kw, reply, fs)
    IN  /\ call.op = "none"
        /\ fs' = r.fs
        /\ call' = Called("convert", image_path, NoPath, kw, reply,
                          r @@ [path |-> NoPath, converted |-> r.outcome])
        /\ UNCHANGED <<envVars, threads, factoryVars, fenceVars, conv>>

\* converter.save_markdown(image_path, output, **kw); the provider answers reply
SaveMarkdown(image_path, output, kw, reply) ==
    LET r == save_markdown(conv, image_path, output, kw, reply, fs)
    IN  /\ call.op = "none"
        /\ fs' = r.fs
        /\ call' = Called("save_markdown", image_path, output, kw, reply, r)
        /\ UNCHANGED <<envVars, threads, factoryVars, fenceVars, conv>>

Converts ==
    \E image_path \in Images, kw \in CallOptions(conv), reply \in ProviderReplies :
        Convert(image_path, kw, reply)

Saves ==
    \E image_path \in Images, output \in Outputs, kw \in CallOptions(conv),
       reply \in ProviderReplies :
        SaveMarkdown(image_path, output, kw, reply)


(***************************************************************************)
(* Image2MarkdownFactory (image2md/factory.py).                            *)
(***************************************************************************)
\* the dict object bound to Image2MarkdownFactory._converters
RegistryRef == 1

converters == heap[RegistryRef]

\* a message that enumerates the built-in keys only
AvailableTypesBuiltin(reg) == DOMAIN InitialConverters

\* the keys the "Unknown converter type" message enumerates
AvailableTypes(reg) == DOMAIN reg

\* the o4- special case: max_tokens is passed on as max_completion_tokens too
RenameMaxTokens(ct, kw) ==
    IF /\ ct = N_llm
       /\ "model" \in DOMAIN kw
       /\ StartsWith(kw["model"], P_o4)
       /\ "max_tokens" \in DOMAIN kw
       /\ "max_completion_tokens" \notin DOMAIN kw
    THEN DictSet(kw, "max_completion_tokens", kw["max_tokens"])
    ELSE kw

\* the SDK guards at the head of get_converter
GuardRaises(ct) ==
    \/ ct = N_azure /\ ~AZURE_AVAILABLE
    \/ ct = N_llm /\ ~LLM_AVAILABLE
    \/ ct = N_anthropic /\ ~ANTHROPIC_AVAILABLE
    \/ ct = N_gemini /\ ~GEMINI_AVAILABLE

WithListed(r, keys) ==
    [outcome |-> r.outcome, raisedBy |-> r.raisedBy, instance |-> r.instance,
     names |-> r.names, listed |-> keys]

\* Image2MarkdownFactory.get_converter(converter_type, **kwargs)
get_converter(reg, converter_type, kwargs) ==
    LET ct == Lower(converter_type)
        kw == RenameMaxTokens(ct, kwargs)
        converter_class == DictGet(reg, ct)
    IN  IF GuardRaises(ct) THEN WithListed(Raised("ImportError", "get_converter"), {})
        ELSE IF converter_class = None
             THEN WithListed(Raised("ValueError", "get_converter"), AvailableTypes(reg))
        ELSE WithListed(Construct(converter_class, kw), {})

\* a registration that stores the class before it validates it
register_converter_unchecked(reg, name, converter_class) ==
    [outcome |-> IF IsConverterClass(converter_class) THEN "returned" ELSE "TypeError",
     reg |-> DictSet(reg, Lower(name), converter_class)]

\* a registration that stores under the name as given
register_converter_verbatim(reg, name, converter_class) ==
    IF ~IsConverterClass(converter_class)
    THEN [outcome |-> "TypeError", reg |-> reg]
    ELSE [outcome |-> "returned", reg |-> DictSet(reg, name, converter_class)]

\* Image2MarkdownFactory.register_converter(name, converter_class): the
\* registry afterwards and how the call ended
register_converter(reg, name, converter_class) ==
    IF ~IsConverterClass(converter_class)
    THEN [outcome |-> "TypeError", reg |-> reg]
    ELSE [outcome |-> "returned", reg |-> DictSet(reg, Lower(name), converter_class)]

\* dict.copy(): a new dict object with the same items
DictCopy(h, ref) == [heap |-> Append(h, h[ref]), ref |-> Len(h) + 1]

\* a factory that hands out _converters itself
available_converters_alias(h) == [heap |-> h, ref |-> RegistryRef]

\* Image2MarkdownFactory.available_converters(): the heap afterwards and the
\* reference returned
available_converters(h) == DictCopy(h, RegistryRef)

\* the record of a call
Call(op, name, arg, kw, r, ref) ==
    [op |-> op, name |-> name, arg |-> arg, kwargs |-> kw,
     outcome |-> r.outcome, raisedBy |-> r.raisedBy, instance |-> r.instance,
     names |-> r.names, listed |-> r.listed, ref |-> ref]

NoResult == WithListed(Returned(NoInstance), {})

\* the configuration bags callers pass to get_converter
Configs ==
    {EmptyDict,
     ("api_key" :> "sk-arg") @@ ("endpoint" :> "https://arg.azure/path")}

\* the names callers register converters under
RegisterNames == {N_llm, N_LLM, N_custom, N_Custom}

\* what callers store in a dict they were handed (test_available_converters
\* stores the string "test")
CallerKeys == {N_ocr, N_test}
CallerValues == {"test"}

\* no response is being normalised
InitNoFence ==
    /\ response = <<>>
    /\ inner = <<>>
    /\ layers = <<>>
    /\ passes = <<>>

\* no factory call runs beside the caller's
NoThreads == <<>>

\* the registry as the import of the module leaves it
InitRegistryOnly ==
    /\ heap = <<InitialConverters>>
    /\ held = {}
    /\ lastReg = <<>>
    /\ last = Call("import", <<>>, None, EmptyDict, NoResult, 0)

InitFactory ==
    /\ InitRegistryOnly
    /\ threads = NoThreads

RegisterConverter(name, c) ==
    LET r == register_converter(converters, name, c)
    IN  /\ heap' = [heap EXCEPT ![RegistryRef] = r.reg]
        /\ lastReg' = IF r.outcome = "returned" THEN <<Lower(name), c>> ELSE lastReg
        /\ last' = Call("register", name, c, EmptyDict,
                        WithListed([outcome |-> r.outcome,
                                    raisedBy |-> IF r.outcome = "returned" THEN None
                                                 ELSE "register_converter",
                                    instance |-> NoInstance,
                                    names |-> {}], {}), 0)
        /\ UNCHANGED <<envVars, threads, fenceVars, convVars, held>>

GetConverter(name, kw) ==
    /\ last' = Call("get", name, None, kw, get_converter(converters, name, kw), 0)
    /\ UNCHANGED <<envVars, threads, fenceVars, convVars, heap, held, lastReg>>

AvailableConverters ==
    LET r == available_converters(heap)
    IN  /\ Len(r.heap) <= MaxDicts
        /\ heap' = r.heap
        /\ held' = held \cup {r.ref}
        /\ last' = Call("available", <<>>, None, EmptyDict, NoResult, r.ref)
        /\ UNCHANGED <<envVars, threads, fenceVars, convVars, lastReg>>

\* the caller stores into a dict it was handed: d[k] = v
CallerSet(ref, k, v) ==
    /\ ref \in held
    /\ heap' = [heap EXCEPT ![ref] = DictSet(@, k, v)]
    /\ last' = Call("caller_set", k, v, EmptyDict, NoResult, ref)
    /\ UNCHANGED <<envVars, threads, fenceVars, convVars, held, lastReg>>

\* the caller deletes from a dict it was handed: d.pop(k, None)
CallerDel(ref, k) ==
    /\ ref \in held
    /\ heap' = [heap EXCEPT ![ref] = DictDel(@, k)]
    /\ last' = Call("caller_del", k, None, EmptyDict, NoResult, ref)
    /\ UNCHANGED <<envVars, threads, fenceVars, convVars, held, lastReg>>

Register == \E name \in RegisterNames, c \in RegisterArgs : RegisterConverter(name, c)
Get == \E name \in Names, kw \in Configs : GetConverter(name, kw)

\* Every environment; the factory is called by name.
Init ==
    /\ installed \in SUBSET Deps
    /\ environ \in {{}, EnvVars}
    /\ InitFactory
    /\ InitNoFence
    /\ InitNoConvert

Next == Register \/ Get

Spec == Init /\ [][Next]_vars

\* One environment with every package installed; callers also take copies of
\* the registry and write to them.
RegisterCustom == \E c \in RegisterArgs : RegisterConverter(N_custom, c)
GetPlain == \E name \in {N_ocr, N_custom, N_test} : GetConverter(name, EmptyDict)
Available == AvailableConverters
CallerWrites == \E ref \in held, k \in CallerKeys, v \in CallerValues : CallerSet(ref, k, v)
CallerDeletes == \E ref \in held, k \in CallerKeys : CallerDel(ref, k)

InitCaller ==
    /\ installed = Deps
    /\ environ = EnvVars
    /\ InitFactory
    /\ InitNoFence
    /\ InitNoConvert

NextCaller == RegisterCustom \/ GetPlain \/ Available \/ CallerWrites \/ CallerDeletes

SpecCaller == InitCaller /\ [][NextCaller]_vars

(***************************************************************************)
(* Image2MarkdownFactory.convert: get_converter, then save_markdown, both  *)
(* with the caller's keyword arguments.                                    *)
(***************************************************************************)
\* what save_markdown comes to when get_converter raised: nothing was called
NotSaved(g, f) ==
    [outcome |-> g.outcome, raisedBy |-> g.raisedBy, prefix |-> None, text |-> <<>>,
     steps |-> <<>>, sent |-> <<>>, fs |-> f, path |-> NoPath, converted |-> None]

\* a convenience method that keeps the keyword arguments to the constructor
factory_convert_unshared(reg, image_path, converter_type, output_path, kwargs, reply, f) ==
    LET g == get_converter(reg, converter_type, kwargs)
    IN  [got |-> g,
         saved |-> IF g.outcome = "returned"
                   THEN save_markdown(g.instance, image_path, output_path, EmptyDict, reply, f)
                   ELSE NotSaved(g, f)]

\* Image2MarkdownFactory.convert(image_path, converter_type, output_path, **kwargs)
factory_convert(reg, image_path, converter_type, output_path, kwargs, reply, f) ==
    LET g == get_converter(reg, converter_type, kwargs)
    IN  [got |-> g,
         saved |-> IF g.outcome = "returned"
                   THEN save_markdown(g.instance, image_path, output_path, kwargs, reply, f)
                   ELSE NotSaved(g, f)]

\* the bags the command line and the examples build: the keys of the
\* constructor together with the keys of convert
BagFor(name) ==
    CASE name = N_ocr -> ("language" :> "fra")
      [] name = N_vision ->
            ("model_name" :> "gpt-4-vision") @@ ("max_tokens" :> "1000")
            @@ ("prompt" :> "Describe.")
      [] name = N_structure ->
            ("detect_tables" :> "False") @@ ("detect_headings" :> "True")
            @@ ("detect_lists" :> "True")
      [] name = N_azure ->
            ("endpoint" :> "https://arg.azure/path") @@ ("api_key" :> "sk-arg")
            @@ ("api_version" :> "2024-11-30") @@ ("model_id" :> "prebuilt-layout")
            @@ JsonOptions
      [] name = N_llm ->
            ("api_key" :> "sk-arg") @@ ("model" :> M_gpt4o) @@ ("provider" :> "openai")
            @@ ("max_tokens" :> "4000") @@ ("temperature" :> "0.2") @@ JsonOptions
            @@ ("custom_prompt" :> "Brief.")
      [] name = N_anthropic ->
            ("api_key" :> "sk-arg") @@ ("model" :> M_claude37) @@ ("max_tokens" :> "1000")
            @@ JsonOptions @@ ("custom_prompt" :> "Brief.")
      [] name = N_gemini ->
            ("api_key" :> "sk-arg") @@ ("model" :> M_gemini25) @@ ("max_tokens" :> "1000")
            @@ JsonOptions @@ ("custom_prompt" :> "Brief.")

\* the models and temperatures a caller asks an LLMConverter for: one model
\* of the older family and one of each prefix of the newer family
LLMModels == {M_gpt4o, M_o4mini, M_gpt5}
Temperatures == {"0.7", "1.0"}

\* the bags tried for a backend: none, the command line's, and for the LLM
\* backend every model with every temperature, with a token limit, and with
\* both token limits
BagsFor(name) ==
    {EmptyDict, BagFor(name)}
    \cup (IF name = N_llm
          THEN {("api_key" :> "sk-arg") @@ ("model" :> m) @@ ("temperature" :> t) :
                   m \in LLMModels, t \in Temperatures}
               \cup {("api_key" :> "sk-arg") @@ ("model" :> m) @@ ("max_tokens" :> "100") :
                       m \in LLMModels}
               \cup {("api_key" :> "sk-arg") @@ ("model" :> m) @@ ("max_tokens" :> "100")
                     @@ ("max_completion_tokens" :> "50") : m \in LLMModels}
          ELSE {})

BuiltinNames == {N_ocr, N_vision, N_structure, N_azure, N_llm, N_anthropic, N_gemini}

\* Image2MarkdownFactory.convert(image_path, name, output, **kw)
FactoryConvert(image_path, name, output, kw, reply) ==
    LET r == factory_convert(converters, image_path, name, output, kw, reply, fs)
    IN  /\ call.op = "none"
        /\ last' = Call("get", name, None, kw, r.got, 0)
        /\ conv' = r.got.instance
        /\ fs' = r.saved.fs
        /\ call' = Called("factory_convert", image_path, output, kw, reply, r.saved)
        /\ UNCHANGED <<envVars, threads, fenceVars, heap, held, lastReg>>

FactoryConverts ==
    \E image_path \in Images, name \in BuiltinNames, output \in Outputs,
       reply \in ProviderReplies :
        \E kw \in BagsFor(name) :
            FactoryConvert(image_path, name, output, kw, reply)

NextConvert == Converts \/ Saves \/ FactoryConverts

(***************************************************************************)
(* One converter of every class the environment can construct, called once *)
(* in a directory that holds the image.                                    *)
(***************************************************************************)
\* the instances the constructors return for the callers' configurations
\* the models a caller builds a converter of a class for, beside the default
ModelsFor(c) ==
    CASE c = "LLMConverter" -> {M_o4mini, M_gpt5}
      [] c = "AnthropicConverter" -> {M_claude35, M_claude3, M_claude2}
      [] c = "GeminiConverter" -> {M_gemini2, M_gemini15, M_gemini1, M_geminipro}
      [] OTHER -> {}

\* the constructor calls: every class with and without credentials, and the
\* LLM-backed classes with a credential and each of their other models
ConstructorCalls ==
    (BuiltinClasses \X Configs)
    \cup UNION {{<<c, ("api_key" :> "sk-arg") @@ ("model" :> m)>> : m \in ModelsFor(c)} :
                  c \in LLMBackedClasses}

Constructed ==
    {Construct(c, kw).instance :
        <<c, kw>> \in {x \in ConstructorCalls :
                          Construct(x[1], x[2]).outcome = "returned"}}

InitConvert ==
    /\ installed = Deps
    /\ environ \in {{}, EnvVars}
    /\ InitFactory
    /\ InitNoFence
    /\ conv \in Constructed
    /\ fs \in {FreshFs, StaleFs}
    /\ call = NoCall

SpecConvert == InitConvert /\ [][NextConvert]_vars

(***************************************************************************)
(* Claims about the registry.                                              *)
(***************************************************************************)
\* the lowercased name given to the latest call
LastKey == Lower(last.name)

\* C1: for every name in the registry and every letter-casing of it,
\* get_converter(name) returns an instance of exactly the class stored under
\* name.lower() (here: whenever that class's constructor accepts the call).
C1_GetReturnsStoredClass ==
    (/\ last.op = "get"
     /\ last.kwargs = EmptyDict
     /\ LastKey \in DOMAIN converters
     /\ Construct(converters[LastKey], EmptyDict).outcome = "returned")
    => (last.outcome = "returned" /\ last.instance.cls = converters[LastKey])

\* C2: register_converter(name, X) followed by get_converter(name) returns an
\* instance of X, whatever the name mapped to before and whatever backend
\* dependencies are installed (here: whenever X's constructor accepts the call).
C2_RegisterThenGet ==
    (/\ last.op = "get"
     /\ lastReg # <<>>
     /\ LastKey = lastReg[1]
     /\ Construct(lastReg[2], last.kwargs).outcome = "returned")
    => (last.outcome = "returned" /\ last.instance.cls = lastReg[2])

\* C3 as stated: for every name that is not a key of the registry,
\* get_converter(name) constructs nothing, fails with ValueError listing every
\* key of the registry, and leaves the registry unchanged.
C3_UnknownNameValueError ==
    [][(last'.op = "get" /\ Lower(last'.name) \notin DOMAIN converters)
        => /\ last'.outcome = "ValueError"
           /\ last'.listed = DOMAIN converters
           /\ last'.instance = NoInstance
           /\ converters' = converters]_vars

\* the lowercased name is that of a built-in backend the factory module could
\* not import, stated on the installed packages
MissingBackendName(ct) ==
    \/ ct = N_llm /\ "requests" \notin installed
    \/ ct = N_anthropic /\ ({"requests", "anthropic"} \ installed # {})
    \/ ct = N_gemini /\ ({"requests", "genai"} \ installed # {})

\* C3 amended: for every name whose lowercase form is not a key of the
\* registry, get_converter constructs nothing and leaves the registry
\* unchanged; it fails with ImportError when the name is that of a built-in
\* backend whose dependency is missing, and otherwise with ValueError listing
\* every key of the registry.
C3_UnknownNameRaises ==
    [][(last'.op = "get" /\ Lower(last'.name) \notin DOMAIN converters)
        => /\ last'.instance = NoInstance
           /\ converters' = converters
           /\ IF MissingBackendName(Lower(last'.name))
              THEN last'.outcome = "ImportError" /\ last'.raisedBy = "get_converter"
              ELSE /\ last'.outcome = "ValueError"
                   /\ last'.raisedBy = "get_converter"
                   /\ last'.listed = DOMAIN converters]_vars

\* a lookup of an unknown name failed listing a key registered at run time
C3_Witness ==
    /\ last.op = "get"
    /\ last.outcome = "ValueError"
    /\ LastKey \notin DOMAIN converters
    /\ N_custom \in last.listed
    /\ N_ocr \in last.listed

\* C4: register_converter(name, C) with a C that is no subclass of
\* Image2MarkdownConverter raises TypeError and leaves the registry as it
\* was: no key added, removed or remapped.
C4_RejectedRegistration ==
    [][(last'.op = "register" /\ last'.arg \notin BuiltinClasses \cup CustomClasses)
        => (last'.outcome = "TypeError" /\ converters' = converters)]_vars

\* a registration was rejected after another one had succeeded
C4_Witness ==
    /\ last.op = "register"
    /\ last.arg = "NotAConverter"
    /\ last.outcome = "TypeError"
    /\ lastReg # <<>>
    /\ LastKey \notin DOMAIN converters

InitFenceOnly ==
    /\ installed = Deps
    /\ environ = EnvVars
    /\ InitFactory
    /\ InitFence
    /\ InitNoConvert

SpecFence == InitFenceOnly /\ [][NextFence]_vars

\* the response is its inner text in a fence, with nothing after the fence
IsFenced == layers # <<>> /\ layers[Len(layers)] \in {"markdown", "bare"}

\* the text holds three backticks in a row somewhere
HasFence(t) == \E i \in 1..(Len(t) - 2) : t[i] = BT /\ t[i + 1] = BT /\ t[i + 2] = BT

\* the text starts with an opening fence and ends with a closing one
LooksWrapped(t) ==
    (StartsWith(t, FenceMarkdown) \/ StartsWith(t, FenceBare)) /\ EndsWith(t, FenceClose)

\* C7 as stated: the transform is exact on both fenced forms, leaves a text
\* without fences alone, and is idempotent: strip(strip(t)) = strip(t).
C7_ExactAndIdempotent ==
    /\ (IsFenced /\ Len(passes) >= 1) => passes[1] = inner
    /\ (~HasFence(response) /\ Len(passes) >= 1) => passes[1] = response
    /\ Len(passes) >= 2 => passes[2] = passes[1]

\* C7 amended: for every text X both fenced forms map to exactly X and a
\* text without fences maps to itself; a second application changes nothing
\* when the first result is not itself wrapped in fences (each application
\* removes one layer, so the transform is not idempotent on nested fences).
C7_ExactOneLayer ==
    /\ (IsFenced /\ Len(passes) >= 1) => passes[1] = inner
    /\ (~HasFence(response) /\ Len(passes) >= 1) => passes[1] = response
    /\ (Len(passes) >= 2 /\ ~LooksWrapped(passes[1])) => passes[2] = passes[1]
    /\ (Len(passes) >= 2 /\ IsFenced /\ LooksWrapped(inner)) => passes[2] # passes[1]

\* a doubly fenced response was normalised twice: the first pass gave the
\* inner fenced text, the second the text inside that
C7_Witness ==
    /\ layers = <<"bare", "markdown">>
    /\ Len(passes) = 2
    /\ passes[1] = inner
    /\ passes[2] # passes[1]
    /\ Len(passes[2]) = MaxBase

(***************************************************************************)
(* Claims about convert and save_markdown.                                 *)
(***************************************************************************)
\* where save_markdown is to write for the output argument it was given
Target(image_path, output) ==
    IF output = NoPath THEN WithSuffix(image_path, ".md") ELSE output

FencedReplies == {FenceMarkdown \o Body \o FenceClose, FenceBare \o Body \o FenceClose}

\* C8: every LLM-backed converter (LLMConverter, AnthropicConverter,
\* GeminiConverter) strips the fence from the provider's response: when the
\* provider's text is X in a markdown-tagged or a bare fence, convert
\* returns exactly X.
C8_LLMBackedStripFences ==
    (/\ call.op = "convert"
     /\ conv.cls \in LLMBackedClasses
     /\ call.outcome = "returned"
     /\ call.reply.text \in FencedReplies)
    => call.text = Body

\* the strings of a sidecar: those of conversion_params (the model and the
\* messages are not strings), of the provenance and of the top level
SidecarStrings(j) ==
    LET provenance == j["provenance"]
        params == provenance["conversion_params"]
    IN  {params[k] : k \in DOMAIN params \ {"model", "messages"}}
        \cup {provenance[k] : k \in DOMAIN provenance \ {"model", "conversion_params"}}
        \cup {j[k] : k \in DOMAIN j \cap {"provider", "timestamp", "conversion_type"}}

\* C9: for every backend, constructor arguments and per-call options, no
\* sidecar written holds the converter's credential value anywhere.
C9_NoCredentialInSidecar ==
    \A p \in DOMAIN fs.files :
        fs.files[p].kind = "json" => Credential(conv) \notin SidecarStrings(fs.files[p].json)

\* C10 as stated: for every converter, the stubs included, convert on a
\* missing image fails with a file-not-found error before any backend call:
\* no request is issued and no file is written.
C10_MissingImageFails ==
    [][(call'.op = "convert" /\ call'.image \notin DOMAIN fs.files)
        => /\ call'.outcome = "FileNotFoundError"
           /\ call'.sent = <<>>
           /\ fs' = fs]_vars

\* the text names the file
NamesFile(text, image_path) == \E i \in 1..Len(text) : text[i] = image_path.stem

\* C10 amended: on a missing image the provider-backed converters
\* (LLMConverter, AnthropicConverter, GeminiConverter,
\* AzureDocumentConverter) fail with a file-not-found error raised by convert
\* before anything else happens: no request is issued and no file is written,
\* through save_markdown too.  The OCR, structure and vision stubs do not
\* look at the path: convert returns their placeholder text naming the file,
\* issues no request and writes no file.
C10_ProviderBackedCheckFirst ==
    [][(call'.op \in {"convert", "save_markdown"} /\ call'.image \notin DOMAIN fs.files)
        => IF conv.cls \in ProviderBackedClasses
           THEN /\ call'.outcome = "FileNotFoundError"
                /\ call'.raisedBy = "convert"
                /\ call'.sent = <<>>
                /\ call'.steps = <<>>
                /\ fs' = fs
           ELSE /\ call'.converted = "returned"
                /\ call'.sent = <<>>
                /\ NamesFile(call'.text, call'.image)
                /\ call'.op = "convert" => fs' = fs]_vars

\* a provider-backed converter asked for a sidecar of a missing image: the
\* call failed with nothing requested and nothing written
C10_Witness ==
    /\ call.op = "convert"
    /\ call.image = P_missing
    /\ conv.cls = "AzureDocumentConverter"
    /\ "save_json" \in DOMAIN call.opts
    /\ call.outcome = "FileNotFoundError"
    /\ call.sent = <<>>
    /\ fs = FreshFs

(***************************************************************************)
(* Claims about the registry the module import builds.                     *)
(***************************************************************************)
\* the packages a backend's converter module loads: its SDK, and requests
\* for the modules that load llm_converter.py
BackendDeps(key) ==
    CASE key = N_azure -> {"azure"}
      [] key = N_llm -> {"requests", "openai"}
      [] key = N_anthropic -> {"requests", "anthropic"}
      [] key = N_gemini -> {"requests", "genai"}

\* C11: the initial registry holds "ocr", "vision" and "structure", and each
\* of "azure", "llm", "anthropic" and "gemini" exactly when the packages of
\* that backend can be loaded.
C11_InitialRegistry ==
    last.op = "import"
    => /\ {N_ocr, N_vision, N_structure} \subseteq DOMAIN converters
       /\ \A key \in {N_azure, N_llm, N_anthropic, N_gemini} :
              key \in DOMAIN converters <=> BackendDeps(key) \subseteq installed

(***************************************************************************)
(* Claims about the sidecar and about construction.                        *)
(***************************************************************************)
\* the JSON documents in the filesystem
Sidecars == {p \in DOMAIN fs.files : fs.files[p].kind = "json"}

\* C12: every sidecar written by any backend has at least the top-level keys
\* markdown, provenance, timestamp, image_path and conversion_type, and its
\* provenance has at least the keys timestamp, model, provider, system_info
\* and conversion_params.
C12_SidecarKeys ==
    \A p \in Sidecars :
        LET j == fs.files[p].json
        IN  /\ {"markdown", "provenance", "timestamp", "image_path", "conversion_type"}
                  \subseteq DOMAIN j
            /\ {"timestamp", "model", "provider", "system_info", "conversion_params"}
                  \subseteq DOMAIN j["provenance"]

\* the environment variable that holds a provider's credential
CredentialVar(c) ==
    CASE c = "LLMConverter" -> "OPENAI_API_KEY"
      [] c = "AnthropicConverter" -> "ANTHROPIC_API_KEY"
      [] c = "GeminiConverter" -> "GOOGLE_API_KEY"
      [] c = "AzureDocumentConverter" -> "AZURE_API_KEY"

\* the credential a construction is to end up with: the explicit argument,
\* else the value of the environment variable, else none
ExpectedCredential(c, kw) ==
    IF "api_key" \in DOMAIN kw THEN kw["api_key"]
    ELSE IF CredentialVar(c) \in environ THEN EnvValue(CredentialVar(c))
    ELSE None

\* the class get_converter is about to construct in the step
ClassOfGet == DictGet(converters, Lower(last'.name))

\* the step constructs a provider-backed converter
ConstructsProviderBacked ==
    /\ last'.op = "get"
    /\ last'.raisedBy # "get_converter"
    /\ ClassOfGet \in ProviderBackedClasses

\* C13 as stated: the credential is the explicit argument when one is given,
\* otherwise the provider's environment variable; when neither yields one,
\* construction fails with an error naming the environment variable and no
\* instance is created.
C13_CredentialResolution ==
    [][ConstructsProviderBacked
        => IF ExpectedCredential(ClassOfGet, last'.kwargs) # None
           THEN last'.outcome = "returned"
                => last'.instance.attrs["api_key"]
                   = ExpectedCredential(ClassOfGet, last'.kwargs)
           ELSE /\ last'.outcome # "returned"
                /\ last'.instance = NoInstance
                /\ CredentialVar(ClassOfGet) \in last'.names]_vars

\* the classes whose constructor tests for the SDK before the credential
SdkFirstClasses == {"LLMConverter", "AzureDocumentConverter"}

\* the SDK of a provider-backed class can be imported
SdkInstalled(c) ==
    CASE c = "LLMConverter" -> "openai" \in installed
      [] c = "AnthropicConverter" -> "anthropic" \in installed
      [] c = "GeminiConverter" -> "genai" \in installed
      [] c = "AzureDocumentConverter" -> "azure" \in installed

\* C13 amended: with the SDK installed, construction succeeds with the
\* explicit argument as the credential when one is given and otherwise with
\* the value of the provider's environment variable; when neither yields a
\* credential it fails with ValueError naming the environment variable and
\* no instance is created -- except that LLMConverter and
\* AzureDocumentConverter test for their SDK first and, when it is missing,
\* fail with ImportError naming no variable.
C13_CredentialResolutionWithSdk ==
    [][ConstructsProviderBacked
        => LET expected == ExpectedCredential(ClassOfGet, last'.kwargs)
           IN  IF ClassOfGet \in SdkFirstClasses /\ ~SdkInstalled(ClassOfGet)
               THEN /\ last'.outcome = "ImportError"
                    /\ last'.names = {}
                    /\ last'.instance = NoInstance
               ELSE IF expected = None
               THEN /\ last'.outcome = "ValueError"
                    /\ CredentialVar(ClassOfGet) \in last'.names
                    /\ last'.instance = NoInstance
               ELSE IF ~SdkInstalled(ClassOfGet)
               THEN last'.outcome = "ImportError" /\ last'.instance = NoInstance
               ELSE /\ last'.outcome = "returned"
                    /\ last'.instance.cls = ClassOfGet
                    /\ last'.instance.attrs["api_key"] = expected]_vars

\* without an argument and without the variable, AnthropicConverter was
\* refused with an error naming ANTHROPIC_API_KEY although its SDK is there
C13_Witness ==
    /\ last.op = "get"
    /\ last.name = N_anthropic
    /\ last.kwargs = EmptyDict
    /\ "anthropic" \in installed
    /\ "ANTHROPIC_API_KEY" \notin environ
    /\ last.outcome = "ValueError"
    /\ last.names = {"ANTHROPIC_API_KEY"}
    /\ last.instance = NoInstance

\* C14: Image2MarkdownFactory.convert(image_path, name, output_path, **config)
\* is get_converter(name, **config) followed by that instance's
\* save_markdown(image_path, output_path, **config): both receive the same
\* bag, the outcome, the requests, the files and the path are those of
\* save_markdown, and for every built-in backend the bag holding the keys
\* of its constructor and of its convert is accepted by both steps, so that
\* with an existing image, an existing target directory and a provider that
\* answers the call returns the target path.
C14_FactoryConvertIsGetThenSave ==
    [][call'.op = "factory_convert"
        => LET g == get_converter(converters, last'.name, call'.opts)
               s == save_markdown(g.instance, call'.image, call'.output,
                                  call'.opts, call'.reply, fs)
           IN  /\ last'.kwargs = call'.opts
               /\ last'.outcome = g.outcome
               /\ last'.instance = g.instance
               /\ conv' = g.instance
               /\ IF g.outcome = "returned"
                  THEN /\ call'.outcome = s.outcome
                       /\ call'.path = s.path
                       /\ call'.text = s.text
                       /\ call'.steps = s.steps
                       /\ call'.sent = s.sent
                       /\ fs' = s.fs
                  ELSE /\ call'.outcome = g.outcome
                       /\ call'.path = NoPath
                       /\ call'.sent = <<>>
                       /\ fs' = fs
               /\ ( /\ call'.opts = BagFor(last'.name)
                    /\ call'.image \in DOMAIN fs.files
                    /\ Target(call'.image, call'.output).dir \in fs.dirs
                    /\ (call'.sent # <<>> => call'.reply.ok) )
                  => /\ g.outcome = "returned"
                     /\ call'.outcome = "returned"
                     /\ call'.path = Target(call'.image, call'.output)
                     /\ fs'.files[call'.path] = TextFile(call'.text)]_vars

\* the factory built an Anthropic converter from the bag, the same bag asked
\* save_markdown for a sidecar, and both files were written
C14_Witness ==
    /\ call.op = "factory_convert"
    /\ last.name = N_anthropic
    /\ call.opts = BagFor(N_anthropic)
    /\ call.outcome = "returned"
    /\ call.path = P_out
    /\ call.steps = <<"request", "normalise", "sidecar", "markdown">>
    /\ P_sidecar \in DOMAIN fs.files
    /\ P_out \in DOMAIN fs.files

\* the provider was called and the call failed
ProviderFailed == call'.op # "none" /\ call'.sent # <<>> /\ ~call'.reply.ok

\* the prefix of the message of the exception a provider-backed class raises
\* for a failed provider call that names the provider
ProviderPrefix(cls) ==
    CASE cls = "AnthropicConverter" -> "Anthropic API error: "
      [] cls = "GeminiConverter" -> "Google Gemini API error: "
      [] OTHER -> None

\* C15 as stated: when the provider call fails, every provider-backed
\* converter raises to its caller an exception whose message starts with a
\* prefix identifying the provider; nothing is retried and no text returned.
C15_FailureWrappedWithProvider ==
    [][ProviderFailed
        => /\ conv'.cls \in ProviderBackedClasses
           /\ call'.outcome = "Exception"
           /\ call'.raisedBy = "convert"
           /\ call'.prefix \in {"OpenAI API error: ", "Anthropic API error: ",
                                "Google Gemini API error: ", "Azure API error: "}
           /\ Len(call'.sent) = 1
           /\ call'.text = <<>>]_vars

\* C15 amended: a failed provider call is never swallowed and never retried:
\* one request was sent, the call raises to its caller, returns no text and
\* no path, and writes no file.  AnthropicConverter and GeminiConverter wrap
\* the failure in an Exception whose message starts with their provider's
\* name; LLMConverter wraps it in an Exception whose message starts with
\* the status code and names no provider; AzureDocumentConverter wraps
\* nothing, the SDK's exception reaches the caller as it is.
C15_FailureRaisedOnce ==
    [][ProviderFailed
        => /\ conv'.cls \in ProviderBackedClasses
           /\ call'.outcome = "Exception"
           /\ call'.converted = "Exception"
           /\ Len(call'.sent) = 1
           /\ call'.steps = <<"request">>
           /\ call'.text = <<>>
           /\ call'.path = NoPath
           /\ fs' = fs
           /\ CASE conv'.cls \in {"AnthropicConverter", "GeminiConverter"} ->
                      /\ call'.raisedBy = "convert"
                      /\ call'.prefix = ProviderPrefix(conv'.cls)
                [] conv'.cls = "LLMConverter" ->
                      /\ call'.raisedBy = "convert"
                      /\ call'.prefix = "Error code: "
                [] conv'.cls = "AzureDocumentConverter" ->
                      /\ call'.raisedBy = "provider"
                      /\ call'.prefix = None]_vars

\* Gemini's failure reached the caller of save_markdown wrapped with the
\* provider's name, after one request and with no file written
C15_Witness ==
    /\ call.op = "save_markdown"
    /\ conv.cls = "GeminiConverter"
    /\ call.sent # <<>>
    /\ ~call.reply.ok
    /\ call.outcome = "Exception"
    /\ call.prefix = "Google Gemini API error: "
    /\ Len(call.sent) = 1
    /\ call.opts = JsonOptions
    /\ P_sidecar \notin DOMAIN fs.files

\* C16: for every model whose request LLMConverter.convert builds the
\* newer way (max_completion_tokens, no max_tokens, no temperature), the
\* constructor has clamped the converter's temperature to 1.0 and has warned
\* when the temperature asked for differs from 1.0; for every other model
\* the request carries max_tokens and the temperature asked for.
C16_NewerFamilyClamped ==
    [][(call'.op = "factory_convert" /\ last'.name = N_llm /\ call'.sent # <<>>)
        => LET request == call'.sent[1]
               asked == Param(call'.opts, "temperature", "0.2")
           IN  IF "max_completion_tokens" \in DOMAIN request
               THEN /\ "max_tokens" \notin DOMAIN request
                    /\ "temperature" \notin DOMAIN request
                    /\ conv'.attrs["temperature"] = "1.0"
                    /\ asked # "1.0" => conv'.attrs["warned"] = "True"
               ELSE /\ "max_tokens" \in DOMAIN request
                    /\ request["temperature"] = asked]_vars

\* the sidecar path a call resolves to: the explicit path, or the image path
\* with the suffix .json
SidecarTarget(image_path, kw) ==
    LET given == Param(kw, "json_output_path", NoPath)
    IN  IF given = NoPath THEN WithSuffix(image_path, ".json") ELSE given

\* C17: for every backend, when the caller asks for provenance (save_json
\* true) and the conversion succeeds, one sidecar is written to the resolved
\* sidecar path, also when no explicit path is given; when provenance is not
\* asked for, no sidecar is written.
C17_SidecarWhenRequested ==
    [][(call'.op # "none" /\ call'.converted = "returned")
        => LET target == SidecarTarget(call'.image, call'.opts)
               sidecars == {i \in DOMAIN call'.steps : call'.steps[i] = "sidecar"}
           IN  IF IsTrue(Param(call'.opts, "save_json", "False"))
               THEN /\ Cardinality(sidecars) = 1
                    /\ target \in DOMAIN fs'.files
                    /\ fs'.files[target].kind = "json"
                    /\ fs'.files[target].json["image_path"] = call'.image
               ELSE /\ sidecars = {}
                    /\ \A p \in DOMAIN fs'.files :
                          fs'.files[p].kind = "json"
                          => p \in DOMAIN fs.files /\ fs'.files[p] = fs.files[p]]_vars

(***************************************************************************)
(* The stub converters called again and again: an OCR converter of either  *)
(* language, a structure converter of any of the eight flag settings or a  *)
(* vision converter, on images of the same and of different names, with    *)
(* and without options for the call.                                       *)
(***************************************************************************)
Flags == {"True", "False"}

StubInstances ==
    {OCRConverterInit("language" :> l).instance : l \in {"eng", "fra"}}
    \cup {StructureConverterInit(("detect_tables" :> t) @@ ("detect_headings" :> h)
                                 @@ ("detect_lists" :> l)).instance :
             t \in Flags, h \in Flags, l \in Flags}
    \cup {VisionConverterInit(EmptyDict).instance}

\* an image of the name of P_image in another directory
P_elsewhere == Path("other", "a", ".png")
StubImages == {P_image, P_missing, P_elsewhere}

\* the options of a call: none, and the names of the constructor's options
\* with other values
StubOptions ==
    {EmptyDict,
     ("language" :> "deu"),
     ("detect_tables" :> "False") @@ ("detect_headings" :> "False")
     @@ ("detect_lists" :> "False"),
     ("save_json" :> "True")}

InitStubs ==
    /\ installed = Deps
    /\ environ = {}
    /\ InitFactory
    /\ InitNoFence
    /\ conv \in StubInstances
    /\ fs \in {FreshFs, StaleFs}
    /\ call = NoCall

\* converter.convert(image_path, **kw), whatever was called before
StubConvert(image_path, kw) ==
    LET r == convert(conv, image_path, kw, NoReply, fs)
    IN  /\ call' = Called("convert", image_path, NoPath, kw, NoReply,
                          r @@ [path |-> NoPath, converted |-> r.outcome])
        /\ fs' = r.fs
        /\ UNCHANGED <<envVars, threads, factoryVars, fenceVars, conv>>

\* converter.save_markdown(image_path), whatever was called before
StubSave(image_path) ==
    LET r == save_markdown(conv, image_path, NoPath, EmptyDict, NoReply, fs)
    IN  /\ call' = Called("save_markdown", image_path, NoPath, EmptyDict, NoReply, r)
        /\ fs' = r.fs
        /\ UNCHANGED <<envVars, threads, factoryVars, fenceVars, conv>>

StubConverts == \E image_path \in StubImages, kw \in StubOptions : StubConvert(image_path, kw)
StubSaves == \E image_path \in StubImages : StubSave(image_path)

NextStubs == StubConverts \/ StubSaves
SpecStubs == InitStubs /\ [][NextStubs]_vars

\* the tokens only heading lines, only lists and only tables are made of
HeadingTokens == {"#", " ", "Main Heading", "Section 1", "Section 2"}
ListTokens ==
    {"- ", ". ", "1", "2", "3", "Item 1", "Item 2", "Item 3",
     "First step", "Second step", "Third step"}
TableTokens ==
    {"| ", " | ", " |", "---", "Column 1", "Column 2", "Column 3",
     "Data 1A", "Data 1B", "Data 1C", "Data 2A", "Data 2B", "Data 2C"}

OwnTokens(flag) ==
    CASE flag = "detect_headings" -> HeadingTokens
      [] flag = "detect_lists" -> ListTokens
      [] flag = "detect_tables" -> TableTokens

Tokens(text) == {text[i] : i \in 1..Len(text)}

\* a is b with some of its tokens deleted: b is read from left to right, each
\* of its tokens matching the next token of a or being skipped, and a is
\* used up; scan[lo, hi, m] is the number of tokens of a matched, m of them
\* before, once b[lo..hi] has been read
IsSubseq(a, b) ==
    \E s \in {a} : \E t \in {b} :
        LET scan[lo \in Nat, hi \in Nat, m \in Nat] ==
                IF lo > hi THEN m
                ELSE IF lo = hi
                THEN (IF m < Len(s) /\ s[m + 1] = t[lo] THEN m + 1 ELSE m)
                ELSE scan[((lo + hi) \div 2) + 1, hi, scan[lo, (lo + hi) \div 2, m]]
        IN  scan[1, Len(t), 0] = Len(s)

\* the text with the tokens of a set left out
Leaving(text, tokens) ==
    LET Kept(x) == x \notin tokens
    IN  SelectSeq(text, Kept)

\* what the same converter with one flag set to a value returns for the image
TextWith(self, flag, value, image_path) ==
    GenerateMarkdown(image_path,
                     MockAnalyzeImage([self EXCEPT !.attrs[flag] = value], image_path))

\* C18: for each of the eight settings of detect_tables, detect_headings and
\* detect_lists the structure stub's output holds the table markup exactly
\* when detect_tables is true, the list items exactly when detect_lists is
\* true and the headings exactly when detect_headings is true, and each flag
\* affects only its own kind of element: the output with a flag off is the
\* output with the flag on from which only tokens of that kind and line
\* ends are deleted, every other element staying as it is and in its place.
C18_FlagsSelectElements ==
    [][(call'.op # "none" /\ conv.cls = "StructureConverter")
        => /\ call'.converted = "returned"
           /\ \A flag \in {"detect_headings", "detect_lists", "detect_tables"} :
                LET on == TextWith(conv, flag, "True", call'.image)
                    off == TextWith(conv, flag, "False", call'.image)
                IN  /\ IF IsTrue(conv.attrs[flag])
                       THEN OwnTokens(flag) \subseteq Tokens(call'.text)
                       ELSE OwnTokens(flag) \cap Tokens(call'.text) = {}
                    /\ call'.text = IF IsTrue(conv.attrs[flag]) THEN on ELSE off
                    /\ IsSubseq(off, on)
                    /\ Leaving(on, OwnTokens(flag) \cup {NL}) = Leaving(off, {NL})]_vars

\* a structure converter built with detect_tables false, the other flags
\* true, returned the list items and the headings and no table markup
C18_Witness ==
    /\ call.op = "convert"
    /\ conv.cls = "StructureConverter"
    /\ conv.attrs["detect_tables"] = "False"
    /\ conv.attrs["detect_lists"] = "True"
    /\ conv.attrs["detect_headings"] = "True"
    /\ call.outcome = "returned"
    /\ "Item 1" \in Tokens(call.text)
    /\ "Main Heading" \in Tokens(call.text)
    /\ "| " \notin Tokens(call.text)

\* the pieces follow one another somewhere in the text
Contains(text, pieces) ==
    \E i \in 0..(Len(text) - Len(pieces)) :
        \A j \in 1..Len(pieces) : text[i + j] = pieces[j]

\* C19: for every language code L and image path,
\* OCRConverter(language=L).convert(image_path) returns text that contains
\* the marker "OCR (L)" and the image's file name, whether or not the image
\* exists and whatever options the call passes.
C19_OcrMarkerAndName ==
    [][(call'.op # "none" /\ conv.cls = "OCRConverter")
        => /\ call'.converted = "returned"
           /\ call'.sent = <<>>
           /\ Contains(call'.text, <<"This text was extracted using OCR (",
                                     conv.attrs["language"], ") from the image.">>)
           /\ Contains(call'.text, <<call'.image.stem, call'.image.ext>>)]_vars

\* the converter built with language fra was called with another language
\* among the call's options and returned the French marker and the name
C19_Witness ==
    /\ call.op = "convert"
    /\ conv.cls = "OCRConverter"
    /\ conv.attrs["language"] = "fra"
    /\ call.opts = ("language" :> "deu")
    /\ call.image = P_elsewhere
    /\ Contains(call.text, <<"This text was extracted using OCR (", "fra",
                             ") from the image.">>)
    /\ Contains(call.text, <<"a", ".png">>)

\* C20: the OCR and structure stubs are deterministic and stateless across
\* calls: a call returns the text the call before it on the same converter
\* returned whenever the two images have the same file name, whatever the
\* directory of the image, whether or not it exists, whatever was called and
\* written before and whatever options the two calls pass; and a call never
\* changes the converter's configuration.
C20_StubsStateless ==
    [][(call'.op # "none" /\ conv.cls \in {"OCRConverter", "StructureConverter"})
        => /\ conv' = conv
           /\ call'.converted = "returned"
           /\ call'.sent = <<>>
           /\ (call.op # "none" /\ PathName(call.image) = PathName(call'.image))
              => call'.text = call.text]_vars

\* after save_markdown wrote the text for in/a.png, a convert of the image of
\* the same name in another directory, with options naming the flags,
\* returned the very text that is in the file
C20_Witness ==
    /\ call.op = "convert"
    /\ conv.cls = "StructureConverter"
    /\ call.image = P_elsewhere
    /\ call.opts # EmptyDict
    /\ "detect_tables" \in DOMAIN call.opts
    /\ WithSuffix(P_image, ".md") \in DOMAIN fs.files
    /\ fs.files[WithSuffix(P_image, ".md")] = TextFile(call.text)
    /\ "| " \in Tokens(call.text)

\* the token limit a provider request carries, under the name the provider
\* has for it; None when the request carries none
TokenLimit(request) ==
    IF "max_tokens" \in DOMAIN request THEN request["max_tokens"]
    ELSE IF "max_output_tokens" \in DOMAIN request THEN request["max_output_tokens"]
    ELSE IF "max_completion_tokens" \in DOMAIN request THEN request["max_completion_tokens"]
    ELSE None

\* a call on an LLM-backed converter issued its request
LLMBackedRequested ==
    call'.op # "none" /\ call'.sent # <<>> /\ conv'.cls \in LLMBackedClasses

\* C21: for every LLM-backed converter the token limit and the temperature
\* sent in the provider request are the per-call max_tokens and temperature
\* when the caller passes them to convert, and the constructor's otherwise.
C21_PerCallWins ==
    [][LLMBackedRequested
        => LET request == call'.sent[1]
           IN  /\ TokenLimit(request)
                    = Param(call'.opts, "max_tokens", conv'.attrs["max_tokens"])
               /\ "temperature" \in DOMAIN request
               /\ request["temperature"]
                    = Param(call'.opts, "temperature", conv'.attrs["temperature"])]_vars

\* C21 amended: AnthropicConverter, GeminiConverter and LLMConverter with a
\* model of the older family send the per-call max_tokens and temperature
\* when the caller passes them to convert and the constructor's values
\* otherwise.  LLMConverter with a model of the newer family (o4-, gpt-5)
\* sends no temperature and no max_tokens: its limit is sent as
\* max_completion_tokens and is the per-call max_completion_tokens, else the
\* constructor's max_completion_tokens, else the constructor's max_tokens; a
\* per-call max_tokens or temperature is ignored there.
C21_PerCallWinsByFamily ==
    [][LLMBackedRequested
        => LET request == call'.sent[1]
           IN  IF conv'.cls = "LLMConverter" /\ NewerFamily(conv'.attrs["model"])
               THEN /\ "temperature" \notin DOMAIN request
                    /\ "max_tokens" \notin DOMAIN request
                    /\ request["max_completion_tokens"]
                         = Param(call'.opts, "max_completion_tokens",
                                 PyOr(conv'.attrs["max_completion_tokens"],
                                      conv'.attrs["max_tokens"]))
               ELSE /\ "max_completion_tokens" \notin DOMAIN request
                    /\ TokenLimit(request)
                         = Param(call'.opts, "max_tokens", conv'.attrs["max_tokens"])
                    /\ request["temperature"]
                         = Param(call'.opts, "temperature", conv'.attrs["temperature"])]_vars

\* a Gemini converter built with the default limit and temperature was
\* called with other ones and sent those
C21_Witness ==
    /\ call.op = "convert"
    /\ conv.cls = "GeminiConverter"
    /\ conv.attrs["max_tokens"] = "4000"
    /\ conv.attrs["temperature"] = "0.2"
    /\ call.opts = ("max_tokens" :> "100") @@ ("temperature" :> "0.9")
    /\ call.sent # <<>>
    /\ call.sent[1]["max_output_tokens"] = "100"
    /\ call.sent[1]["temperature"] = "0.9"

\* the prompt a provider request carries
PromptSent(request) ==
    IF "messages" \in DOMAIN request THEN request["messages"].prompt
    ELSE request["contents"].prompt

\* the DEFAULT_PROMPT of an LLM-backed class
DefaultPrompt(cls) ==
    CASE cls = "LLMConverter" -> LLMDefaultPrompt
      [] cls = "AnthropicConverter" -> AnthropicDefaultPrompt
      [] cls = "GeminiConverter" -> GeminiDefaultPrompt

\* C22 as stated: the prompt sent is the caller's custom prompt whenever the
\* caller supplies one, whatever string it is, and the default prompt only
\* when the caller supplies none.
C22_CustomPromptWins ==
    [][LLMBackedRequested
        => PromptSent(call'.sent[1])
             = Param(call'.opts, "custom_prompt", DefaultPrompt(conv'.cls))]_vars

\* C22 amended: the prompt sent is the caller's custom prompt whenever the
\* caller supplies a non-empty one; when the caller supplies none, or
\* supplies the empty string, the converter's default prompt is sent.
C22_NonEmptyCustomPromptWins ==
    [][LLMBackedRequested
        => LET given == Param(call'.opts, "custom_prompt", None)
           IN  PromptSent(call'.sent[1])
                 = IF given \in {None, ""} THEN DefaultPrompt(conv'.cls) ELSE given]_vars

\* an Anthropic converter called with the empty prompt sent its default prompt
C22_Witness ==
    /\ call.op = "convert"
    /\ conv.cls = "AnthropicConverter"
    /\ call.opts = ("custom_prompt" :> "")
    /\ call.sent # <<>>
    /\ call.sent[1]["messages"].prompt = AnthropicDefaultPrompt

\* the request carries the parameter conversion_params records under a key
WasSent(request, key) ==
    IF key = "max_tokens" THEN TokenLimit(request) # None ELSE key \in DOMAIN request

\* what the request carries for it
SentAs(request, key) ==
    IF key = "max_tokens" THEN TokenLimit(request) ELSE request[key]

\* C23: in every sidecar written by an LLM-backed converter the provenance
\* describes the request that was made: its model is the model the request
\* went to, its conversion_params hold the final prompt and, beside it,
\* nothing but parameters that were sent, with the values sent, and the
\* model, the token limit and the temperature that were sent are recorded.
C23_ProvenanceMatchesRequest ==
    [][(LLMBackedRequested /\ Count(call'.steps, "sidecar") = 1)
        => LET request == call'.sent[1]
               sidecar == fs'.files[call'.opts["json_output_path"]].json
               provenance == sidecar["provenance"]
               params == provenance["conversion_params"]
           IN  /\ provenance["model"] = request["model"]
               /\ params["prompt"] = PromptSent(request)
               /\ \A k \in DOMAIN params \ {"prompt"} :
                     /\ WasSent(request, k)
                     /\ params[k] = SentAs(request, k)
               /\ params["model"] = request["model"]
               /\ \E k \in {"max_tokens", "max_completion_tokens"} \cap DOMAIN params :
                     params[k] = TokenLimit(request)
               /\ "temperature" \in DOMAIN request
                  => /\ "temperature" \in DOMAIN params
                     /\ params["temperature"] = request["temperature"]]_vars

\* the prefixes and the versions they stand for, by model family
VersionTable(cls) ==
    IF cls = "AnthropicConverter"
    THEN {<<P_claude37, "3.7">>, <<P_claude35, "3.5">>, <<P_claude3, "3">>}
    ELSE {<<P_gemini25, "2.5">>, <<P_gemini2, "2.0">>, <<P_gemini15, "1.5">>,
          <<P_gemini1, "1.0">>}

\* the version of the longest prefix in the table the model starts with,
\* None when it starts with none of them
MostSpecificVersion(cls, model) ==
    LET matching == {e \in VersionTable(cls) : StartsWith(model, e[1])}
    IN  IF matching = {} THEN None
        ELSE (CHOOSE e \in matching : \A o \in matching : Len(o[1]) <= Len(e[1]))[2]

\* C24: the provenance model_version is derived from the converter's model
\* by prefix match, the most specific prefix winning: claude-3-7 gives 3.7,
\* claude-3-5 gives 3.5, any other claude-3 gives 3; gemini-2.5 gives 2.5,
\* any other gemini-2 gives 2.0, gemini-1.5 gives 1.5, any other gemini-1
\* gives 1.0; anything else gives null.
C24_ModelVersionByPrefix ==
    [][( /\ call'.op # "none"
         /\ conv'.cls \in {"AnthropicConverter", "GeminiConverter"}
         /\ Count(call'.steps, "sidecar") = 1 )
        => LET provenance ==
                   fs'.files[call'.opts["json_output_path"]].json["provenance"]
           IN  /\ provenance["model"] = conv'.attrs["model"]
               /\ provenance["model_version"]
                    = MostSpecificVersion(conv'.cls, conv'.attrs["model"])]_vars

\* a converter for claude-3-5 wrote a sidecar whose model_version is 3.5,
\* though the model starts with claude-3 as well
C24_Witness ==
    /\ call.op = "convert"
    /\ conv.cls = "AnthropicConverter"
    /\ conv.attrs["model"] = M_claude35
    /\ call.opts = JsonOptions
    /\ P_sidecar \in DOMAIN fs.files
    /\ fs.files[P_sidecar].json["provenance"]["model_version"] = "3.5"

BuiltinClass(name) ==
    CASE name = N_ocr -> "OCRConverter"
      [] name = N_vision -> "VisionConverter"
      [] name = N_structure -> "StructureConverter"
      [] name = N_azure -> "AzureDocumentConverter"
      [] name = N_llm -> "LLMConverter"
      [] name = N_anthropic -> "AnthropicConverter"
      [] name = N_gemini -> "GeminiConverter"

\* C26: get_converter("llm", model=M, max_tokens=N, ...) with M in the newer
\* model family (as convert tests it) and no explicit max_completion_tokens
\* passes N to the constructor as max_completion_tokens, and the converter's
\* requests are limited to N; an explicit max_completion_tokens is never
\* overwritten; for every model outside the newer family and every other
\* backend the config reaches the constructor unchanged.
C26_TokenLimitRenamed ==
    [][(call'.op = "factory_convert" /\ last'.outcome = "returned")
        => LET kw == last'.kwargs
               llm == last'.name = N_llm
               newer == llm /\ "model" \in DOMAIN kw /\ NewerFamily(kw["model"])
           IN  /\ (newer /\ "max_tokens" \in DOMAIN kw
                         /\ "max_completion_tokens" \notin DOMAIN kw)
                  => /\ conv'.attrs["max_completion_tokens"] = kw["max_tokens"]
                     /\ call'.sent # <<>>
                        => call'.sent[1]["max_completion_tokens"] = kw["max_tokens"]
               /\ (llm /\ "max_completion_tokens" \in DOMAIN kw)
                  => conv'.attrs["max_completion_tokens"] = kw["max_completion_tokens"]
               /\ ~newer
                  => conv' = Construct(BuiltinClass(last'.name), kw).instance]_vars

\* what a path holds in a filesystem: its file, or nothing
FileAt(f, p) == IF p \in DOMAIN f.files THEN <<f.files[p]>> ELSE <<>>

\* C27: when convert raises inside save_markdown (the base method or an
\* override, called directly or by Image2MarkdownFactory.convert),
\* save_markdown does not catch it: the error of convert reaches the caller
\* with its raiser and its message prefix, no path is returned, no Markdown
\* write step is taken and the Markdown target is neither created nor
\* modified.
C27_SaveDoesNotCatch ==
    [][(call'.op \in {"save_markdown", "factory_convert"}
        /\ call'.converted \notin {None, "returned"})
        => LET c == convert(conv', call'.image, call'.opts, call'.reply, fs)
               target == Target(call'.image, call'.output)
           IN  /\ call'.outcome = c.outcome
               /\ call'.raisedBy = c.raisedBy
               /\ call'.prefix = c.prefix
               /\ call'.path = NoPath
               /\ \A i \in DOMAIN call'.steps : call'.steps[i] # "markdown"
               /\ FileAt(fs', target) = FileAt(fs, target)]_vars

\* the provider failed under save_markdown of an LLM-backed converter whose
\* Markdown target held an older text, and the older text is still there
C27_Witness ==
    /\ call.op = "save_markdown"
    /\ conv.cls \in LLMBackedClasses
    /\ call.sent # <<>>
    /\ ~call.reply.ok
    /\ call.outcome \notin {None, "returned"}
    /\ call.path = NoPath
    /\ call.output = P_out
    /\ P_out \in DOMAIN fs.files
    /\ fs.files[P_out] = TextFile(OldText)

\* the order of the steps of a save_markdown run
StepOrder == <<"request", "normalise", "sidecar", "markdown">>

\* C28: in every save_markdown run of a provider-backed converter with a
\* sidecar requested (save_json true), the steps happen in the order provider
\* request, normalization, sidecar write, Markdown file write: the Markdown
\* file is written only after the run's sidecar, so it never exists without
\* that run's sidecar, and when the provider request fails neither file is
\* written.
C28_SidecarBeforeMarkdown ==
    [][(call'.op \in {"save_markdown", "factory_convert"}
        /\ conv'.cls \in ProviderBackedClasses
        /\ call'.sent # <<>>
        /\ IsTrue(Param(call'.opts, "save_json", "False")))
        => LET sidecar == SidecarTarget(call'.image, call'.opts)
           IN  /\ IsSubseq(call'.steps, StepOrder)
               /\ Count(call'.steps, "markdown") = 1
                  => /\ Count(call'.steps, "sidecar") = 1
                     /\ sidecar \in DOMAIN fs'.files
                     /\ fs'.files[sidecar].kind = "json"
               /\ ~call'.reply.ok => /\ fs' = fs
                                     /\ call'.steps = <<"request">>]_vars

(***************************************************************************)
(* Every operation of the factory on one registry: registrations under     *)
(* names of either case, lookups, copies handed to callers who write to    *)
(* them, and the convenience conversion, succeeding and failing.           *)
(***************************************************************************)
RegisterEitherCase ==
    \E name \in {N_custom, N_Custom}, c \in RegisterArgs : RegisterConverter(name, c)

ConvertByName ==
    \E image_path \in Images, name \in {N_ocr, N_test}, output \in {NoPath, P_deep} :
        FactoryConvert(image_path, name, output, EmptyDict, Reply(TRUE, Body))

InitRegistry ==
    /\ installed = Deps
    /\ environ = EnvVars
    /\ InitFactory
    /\ InitNoFence
    /\ conv = NoInstance
    /\ fs = FreshFs
    /\ call = NoCall

NextRegistry ==
    \/ RegisterEitherCase
    \/ GetPlain
    \/ Available
    \/ CallerWrites
    \/ CallerDeletes
    \/ ConvertByName

SpecRegistry == InitRegistry /\ [][NextRegistry]_vars

\* C29: only register_converter changes the registry: get_converter,
\* available_converters and Image2MarkdownFactory.convert leave it unchanged
\* whether they succeed or fail, and a successful register_converter(name, C)
\* changes only the entry for name.lower(), so no key is ever removed and
\* every key stored is lowercase.
C29_OnlyRegisterChangesRegistry ==
    [][/\ converters' # converters
          => /\ last'.op = "register"
             /\ last'.outcome = "returned"
             /\ call' = call
             /\ DOMAIN converters' = DOMAIN converters \cup {Lower(last'.name)}
             /\ converters'[Lower(last'.name)] = last'.arg
             /\ \A k \in DOMAIN converters \ {Lower(last'.name)} :
                   converters'[k] = converters[k]
       /\ last'.op = "register" /\ last'.outcome # "returned" => converters' = converters
       /\ DOMAIN converters \subseteq DOMAIN converters'
       /\ \A k \in DOMAIN converters' : k = Lower(k)]_vars

\* a class was registered under a name with a capital, callers hold a copy,
\* a convenience conversion failed on an unknown name, and the registry has
\* the lowercase key beside the built-in ones
C29_Witness ==
    /\ last.op = "register"
    /\ last.name = N_Custom
    /\ last.outcome = "returned"
    /\ N_custom \in DOMAIN converters
    /\ N_Custom \notin DOMAIN converters
    /\ DOMAIN InitialConverters \subseteq DOMAIN converters
    /\ held # {}
    /\ call.op = "factory_convert"
    /\ call.outcome = "ValueError"

(***************************************************************************)
(* Three threads on the one registry, which no lock protects: two call     *)
(* register_converter with the same name and different classes, the third  *)
(* calls get_converter with that name.  A thread is interleaved with the    *)
(* others between the statements of its call; one lookup in the dict and    *)
(* one store into it are single steps of the interpreter.                  *)
(***************************************************************************)
ThreadIds == {"r1", "r2", "g"}
Registering == {"r1", "r2"}

\* a thread about to run its call
Thread(op, pc, name, arg) ==
    [op |-> op, pc |-> pc, name |-> name, arg |-> arg, looked |-> None,
     stored |-> {}, outcome |-> None, instance |-> NoInstance, listed |-> {}]

\* converter_class = cls._converters.get(converter_type)
LookUp(reg, converter_type) == DictGet(reg, converter_type)

\* a store that keeps the class a key already has
StoreClassOnce(reg, name, converter_class) ==
    IF Lower(name) \in DOMAIN reg THEN reg
    ELSE DictSet(reg, Lower(name), converter_class)

\* cls._converters[name.lower()] = converter_class
StoreClass(reg, name, converter_class) == DictSet(reg, Lower(name), converter_class)

\* the registering threads whose store has happened
Stored == {t \in Registering : threads[t].pc = "done" /\ threads[t].outcome = "returned"}

\* if not issubclass(converter_class, Image2MarkdownConverter): raise TypeError
RegisterCheck(t) ==
    /\ threads[t].op = "register"
    /\ threads[t].pc = "check"
    /\ threads' = [threads EXCEPT ![t] =
                      IF IsConverterClass(threads[t].arg)
                      THEN [@ EXCEPT !.pc = "store"]
                      ELSE [@ EXCEPT !.pc = "done", !.outcome = "TypeError"]]
    /\ UNCHANGED <<envVars, factoryVars, fenceVars, convVars>>

\* cls._converters[name.lower()] = converter_class, and the return
RegisterStore(t) ==
    /\ threads[t].op = "register"
    /\ threads[t].pc = "store"
    /\ heap' = [heap EXCEPT ![RegistryRef] = StoreClass(@, threads[t].name, threads[t].arg)]
    /\ lastReg' = <<Lower(threads[t].name), threads[t].arg>>
    /\ threads' = [threads EXCEPT ![t] = [@ EXCEPT !.pc = "done", !.outcome = "returned"]]
    /\ UNCHANGED <<envVars, fenceVars, convVars, held, last>>

\* get_converter up to the lookup: the name is lowercased and the guards run
GetGuards(t) ==
    /\ threads[t].op = "get"
    /\ threads[t].pc = "guards"
    /\ threads' = [threads EXCEPT ![t] =
                      IF GuardRaises(Lower(threads[t].name))
                      THEN [@ EXCEPT !.pc = "done", !.outcome = "ImportError"]
                      ELSE [@ EXCEPT !.pc = "lookup"]]
    /\ UNCHANGED <<envVars, factoryVars, fenceVars, convVars>>

\* converter_class = cls._converters.get(converter_type)
GetLookUp(t) ==
    /\ threads[t].op = "get"
    /\ threads[t].pc = "lookup"
    /\ LET converter_class == LookUp(converters, Lower(threads[t].name))
       IN  threads' = [threads EXCEPT ![t] =
                          [@ EXCEPT !.looked = converter_class,
                                    !.stored = Stored,
                                    !.pc = IF converter_class = None THEN "keys"
                                           ELSE "construct"]]
    /\ UNCHANGED <<envVars, factoryVars, fenceVars, convVars>>

\* available_types = ", ".join(cls._converters.keys()); raise ValueError
GetKeys(t) ==
    /\ threads[t].op = "get"
    /\ threads[t].pc = "keys"
    /\ threads' = [threads EXCEPT ![t] =
                      [@ EXCEPT !.pc = "done", !.outcome = "ValueError",
                                !.listed = AvailableTypes(converters)]]
    /\ UNCHANGED <<envVars, factoryVars, fenceVars, convVars>>

\* return converter_class(**kwargs)
GetConstruct(t) ==
    /\ threads[t].op = "get"
    /\ threads[t].pc = "construct"
    /\ LET r == Construct(threads[t].looked, EmptyDict)
       IN  threads' = [threads EXCEPT ![t] =
                          [@ EXCEPT !.pc = "done", !.outcome = r.outcome,
                                    !.instance = r.instance]]
    /\ UNCHANGED <<envVars, factoryVars, fenceVars, convVars>>

\* the names the threads use, none of them registered before
RaceNames == {N_custom, N_Custom, N_test}

\* the spellings of a name
Spellings(name) == {n \in Names : Lower(n) = Lower(name)}

InitRace ==
    /\ installed = Deps
    /\ environ = EnvVars
    /\ InitRegistryOnly
    /\ InitNoFence
    /\ InitNoConvert
    /\ \E name \in RaceNames, X \in CustomClasses, Y \in CustomClasses :
          /\ X # Y
          /\ \E asked \in Spellings(name) :
                threads = [t \in ThreadIds |->
                              CASE t = "r1" -> Thread("register", "check", name, X)
                                [] t = "r2" -> Thread("register", "check", name, Y)
                                [] t = "g" -> Thread("get", "guards", asked, None)]

NextRace ==
    \E t \in ThreadIds :
        \/ RegisterCheck(t)
        \/ RegisterStore(t)
        \/ GetGuards(t)
        \/ GetLookUp(t)
        \/ GetKeys(t)
        \/ GetConstruct(t)

SpecRace == InitRace /\ [][NextRace]_vars

\* the key the three threads work on
RaceKey == Lower(threads["r1"].name)

====
